---- MODULE Spec2Model ----
(***************************************************************************)
(* DIEM: a client library and CLI that manage vector tables in MariaDB.    *)
(* The model covers the DIEM class (src/DIEM/DIEM.py), its command line    *)
(* (src/diem/cli.py), the older create_table (src/DIEM.py) and the DEAM    *)
(* class (src/DIEM2.py): its delete, its multi-row writes and the thread   *)
(* of init_analytics, over one database whose committed content is `tbl`.  *)
(*                                                                         *)
(* Names that are inlined into SQL text (tables, columns, indexes, bind    *)
(* parameter names) and JSON texts are sequences of one-character strings, *)
(* so that str.isidentifier(), str.lower() and json.loads() are computed,  *)
(* not assumed. WHERE clauses, which the code never inspects, are plain    *)
(* strings.                                                                *)
(***************************************************************************)
EXTENDS Integers, Sequences, FiniteSets, TLC

VARIABLES
    tbl,        \* the database: table name -> [cols, pk, metric, index, rows]
    engine,     \* DIEM.engine of the library user's object: TRUE, or FALSE for None
    config,     \* content of ~/.diem_config: a URI, or NoConfig when absent
    connection, \* DEAM.connection: TRUE when connected, FALSE for None
    pc,         \* "idle", or "batch" while batch_insert_vectors is in its row loop
    bat,        \* the running batch: its transaction and counters
    hist,       \* history of the command line: the last of connect/close, the URI
                \* last entered, whether a connect reached the engine since a close
    txn,        \* the open transaction of DEAM.connection: <<>>, or the one database
                \* that the statements executed on the connection have made so far
    sync,       \* the thread of _async_sync_to_columnstore: its position, the rows
                \* it fetched, the ids it copied
    last        \* the most recent call: operation, arguments, outcome, statements

vars == <<tbl, engine, config, connection, pc, bat, last, hist, txn, sync>>

---------------------------------------------------------------------------
(* Bounds of the model *)

MaxTableRows == 2   \* a table holds at most this many rows
MaxFileRows == 3    \* a CSV file holds at most this many data rows

---------------------------------------------------------------------------
(* Characters and str methods *)

Lowercase == <<"a","b","c","d","e","f","g","h","i","j","k","l","m",
               "n","o","p","q","r","s","t","u","v","w","x","y","z">>
Uppercase == <<"A","B","C","D","E","F","G","H","I","J","K","L","M",
               "N","O","P","Q","R","S","T","U","V","W","X","Y","Z">>

AsciiLetters == {Lowercase[i] : i \in 1..26} \cup {Uppercase[i] : i \in 1..26}
Digits == {"0","1","2","3","4","5","6","7","8","9"}
\* a non-ASCII letter (XID_Start), written by its code point
UnicodeLetters == {"U+00E9"}

\* str.lower() on one character
LowerChar(c) ==
    IF \E i \in 1..26 : Uppercase[i] = c
    THEN Lowercase[CHOOSE i \in 1..26 : Uppercase[i] = c]
    ELSE c

\* str.lower()
Lower(s) == [i \in 1..Len(s) |-> LowerChar(s[i])]

\* str.upper() on one character
UpperChar(c) ==
    IF \E i \in 1..26 : Lowercase[i] = c
    THEN Uppercase[CHOOSE i \in 1..26 : Lowercase[i] = c]
    ELSE c

\* str.upper()
Upper(s) == [i \in 1..Len(s) |-> UpperChar(s[i])]

\* a non-ASCII punctuation mark that may continue an identifier (XID_Continue
\* and not XID_Start): the middle dot
UnicodeMarks == {"U+00B7"}

\* an identifier check that looks at the first character only
IsIdentifierByFirst(s) ==
    /\ Len(s) > 0
    /\ s[1] \in AsciiLetters \cup UnicodeLetters \cup {"_"}

\* str.isidentifier(): non-empty, first character a letter or underscore
\* (XID_Start), the others letters, digits, underscores or marks
\* (XID_Continue); keywords are not excluded
IsIdentifier(s) ==
    /\ Len(s) > 0
    /\ s[1] \in AsciiLetters \cup UnicodeLetters \cup {"_"}
    /\ \A i \in 1..Len(s) :
          s[i] \in AsciiLetters \cup UnicodeLetters \cup Digits \cup {"_"} \cup UnicodeMarks

---------------------------------------------------------------------------
(* Python values *)

\* None, where a string of SQL text or of user input is expected
None == "<None>"
\* None, where a name (a sequence of characters) is expected
NoName == <<"<None>">>
\* None, where a dict is expected (dicts are functions from names to values)
NoDict == [k \in {NoName} |-> TRUE]
\* the empty dict
EmptyDict == <<>>

\* truth value of a str-or-None
TruthyStr(s) == s # None /\ s # ""
\* truth value of a name-or-None
TruthyName(n) == n # NoName /\ n # <<>>
\* truth value of a dict-or-None
TruthyDict(d) == d # NoDict /\ d # EmptyDict

\* `d or {}`
OrEmpty(d) == IF TruthyDict(d) THEN d ELSE EmptyDict

\* dict.update: the entries of e replace those of d
DictUpdate(d, e) ==
    [k \in DOMAIN d \cup DOMAIN e |-> IF k \in DOMAIN e THEN e[k] ELSE d[k]]

---------------------------------------------------------------------------
(* json: texts are sequences of characters *)

\* index of the first non-blank character of s at or after i
RECURSIVE SkipWs(_, _)
SkipWs(s, i) == IF i <= Len(s) /\ s[i] = " " THEN SkipWs(s, i + 1) ELSE i

\* index after the digits that start at i
RECURSIVE SkipDigits(_, _)
SkipDigits(s, i) == IF i <= Len(s) /\ s[i] \in Digits THEN SkipDigits(s, i + 1) ELSE i

\* index after the JSON value that starts at i, or 0 when there is none;
\* the values are integers and (nested) arrays
RECURSIVE ParseValue(_, _), ParseElems(_, _, _)
ParseValue(s, i) ==
    IF i > Len(s) THEN 0
    ELSE IF s[i] = "0" THEN i + 1
    ELSE IF s[i] \in Digits THEN SkipDigits(s, i)
    ELSE IF s[i] = "[" THEN ParseElems(s, SkipWs(s, i + 1), TRUE)
    ELSE 0

ParseElems(s, i, first) ==
    IF i > Len(s) THEN 0
    ELSE IF first /\ s[i] = "]" THEN i + 1
    ELSE LET j == ParseValue(s, i)
             k == IF j = 0 THEN 0 ELSE SkipWs(s, j)
         IN IF j = 0 \/ k > Len(s) THEN 0
            ELSE IF s[k] = "]" THEN k + 1
            ELSE IF s[k] = "," THEN ParseElems(s, SkipWs(s, k + 1), FALSE)
            ELSE 0

\* the text is one JSON value, blanks around it allowed
IsJsonText(s) ==
    LET j == ParseValue(s, SkipWs(s, 1))
    IN j # 0 /\ SkipWs(s, j) = Len(s) + 1

\* json.loads(x): "ok", or the exception it raises; None is not a str
JsonLoads(x) ==
    IF x = NoName THEN "TypeError"
    ELSE IF IsJsonText(x) THEN "ok"
    ELSE "JSONDecodeError"

\* Python values handed in as an embedding
PyList(items) == [py |-> "list", v |-> items]
PyInt(n) == [py |-> "int", v |-> n]
PySet(items) == [py |-> "set", v |-> items]

\* the items of a list of one-digit numbers, separated as json.dumps separates them
RECURSIVE DumpItems(_)
DumpItems(items) ==
    IF items = <<>> THEN <<>>
    ELSE IF Len(items) = 1 THEN <<ToString(items[1])>>
    ELSE <<ToString(items[1]), ",", " ">> \o DumpItems(Tail(items))

\* json.dumps(x) succeeds
JsonSerializable(x) == x.py \in {"list", "int"}

\* json.dumps(x), for a serializable x
JsonDumps(x) ==
    IF x.py = "list" THEN <<"[">> \o DumpItems(x.v) \o <<"]">>
    ELSE <<ToString(x.v)>>

---------------------------------------------------------------------------
(* Names and values the calls are made with *)

T1 == <<"t">>                                   \* a well-formed table name
TInj == <<"t", ";">>                            \* a name carrying a statement separator
ColId == <<"i", "d">>
ColTag == <<"t", "a", "g">>
ColEmbedding == <<"e", "m", "b", "e", "d", "d", "i", "n", "g">>
ColBad == <<"a", " ", "b">>                     \* a column name with a blank in it
Key == <<"k", "e", "y">>                        \* the bind name of the WHERE clauses
SetPrefix == <<"s", "e", "t", "_">>
QueryVec == <<"q", "u", "e", "r", "y", "_", "v", "e", "c">>
TopK == <<"t", "o", "p", "_", "k">>

TableNames == {T1, TInj}
Ids == 1..MaxTableRows
Tags == {"a", "b"}

\* embedding texts: two vectors, and for the cells of a CSV file a vector, a
\* JSON scalar, broken JSON and the empty text
VecText == <<"[", "1", ",", " ", "2", "]">>
VecText2 == <<"[", "3", ",", " ", "4", "]">>
ScalarText == <<"5">>
BrokenText == <<"[", "1", ",">>
EmbTexts == {VecText, ScalarText, BrokenText, <<>>}

\* distance metrics as the caller writes them
Cosine == <<"c", "o", "s", "i", "n", "e">>
Euclidean == <<"e", "u", "c", "l", "i", "d", "e", "a", "n">>
MetricInputs == {Cosine, Upper(Cosine), <<"E">> \o Tail(Euclidean), <<"l", "2">>}

\* index names: the default of create_table, and one with a dash
VecIdx == <<"v", "e", "c", "_", "i", "d", "x">>
IndexInputs == {VecIdx, <<"i", "-", "x">>}

\* answers to the confirmation prompt of delete_table
Yes == <<"y", "e", "s">>
Answers == {Yes, Upper(Yes), <<"Y", "e", "s">>, <<"y">>, <<"n", "o">>, <<>>,
            <<" ">> \o Yes}

\* WHERE clauses as the caller writes them
WhereById == "id = :key"
WhereAll == "1=1"
WhereClauses == {None, "", WhereById, WhereAll}

---------------------------------------------------------------------------
(* The database engine (MariaDB), as far as the calls observe it *)

\* a stored row; id 0 and tag "NULL" stand for SQL NULL
Row(i, g, e) == [id |-> i, tag |-> g, emb |-> e]

\* number of elements of the flat array of integers that s is, or -1
RECURSIVE FlatItems(_, _, _)
FlatItems(s, i, n) ==
    IF i > Len(s) \/ s[i] \notin Digits THEN -1
    ELSE LET j == IF s[i] = "0" THEN i + 1 ELSE SkipDigits(s, i)
             k == SkipWs(s, j)
         IN IF k > Len(s) THEN -1
            ELSE IF s[k] = "]" THEN (IF SkipWs(s, k + 1) = Len(s) + 1 THEN n + 1 ELSE -1)
            ELSE IF s[k] = "," THEN FlatItems(s, SkipWs(s, k + 1), n + 1)
            ELSE -1

\* VEC_FromText(s) into a VECTOR(dim) column: s is a JSON array of dim numbers
IsVectorText(s, dim) ==
    LET i == SkipWs(s, 1)
    IN /\ i <= Len(s)
       /\ s[i] = "["
       /\ FlatItems(s, SkipWs(s, i + 1), 0) = dim

NoTables == <<>>

\* inspector.has_table / the table is in the catalogue
HasTable(db, t) == t \in DOMAIN db

\* a table as CREATE TABLE makes it
NewTable(cols, pk, dim, metric, index) ==
    [cols |-> cols, pk |-> pk, dim |-> dim, metric |-> metric, index |-> index,
     rows |-> <<>>]

\* a statement as handed to conn.execute / cursor.execute: its kind, the names
\* inlined into its text, its WHERE text and the parameters bound to it
Stmt(kind, t, names, where, binds) ==
    [kind |-> kind, table |-> t, names |-> names, where |-> where, binds |-> binds]

\* the engine can evaluate the clause on table t with these binds
WhereOk(db, t, where, binds) ==
    \/ where = WhereAll
    \/ where = WhereById /\ Key \in DOMAIN binds /\ ColId \in db[t].cols

\* the clause selects the row
Matches(where, binds, r) ==
    \/ where = WhereAll
    \/ where = WhereById /\ r.id = binds[Key]

\* the rows of s the clause selects (keepMatching) or does not select, in order
RECURSIVE SelectRows(_, _, _, _)
SelectRows(s, where, binds, keepMatching) ==
    IF s = <<>> THEN <<>>
    ELSE LET rest == SelectRows(Tail(s), where, binds, keepMatching)
         IN IF Matches(where, binds, Head(s)) = keepMatching
            THEN <<Head(s)>> \o rest ELSE rest

\* DELETE FROM t WHERE ... is accepted: the table exists and the clause evaluates
DeleteAccepted(db, t, where, binds) == HasTable(db, t) /\ WhereOk(db, t, where, binds)

DeleteEffect(db, t, where, binds) ==
    [db EXCEPT ![t].rows = SelectRows(@, where, binds, FALSE)]

\* the columns a statement names all exist in table t
ColumnsExist(db, t, cols) == cols \subseteq db[t].cols \cup {ColEmbedding}

\* the row an INSERT with these binds stores
RowOf(binds) ==
    Row(IF ColId \in DOMAIN binds THEN binds[ColId] ELSE 0,
        IF ColTag \in DOMAIN binds THEN binds[ColTag] ELSE "NULL",
        binds[ColEmbedding])

\* the ids of the rows of s
RowIds(s) == {s[i].id : i \in 1..Len(s)}

\* INSERT INTO t (cols) VALUES (binds) is accepted, `pending` being the rows
\* the open transaction has inserted so far: the table and the columns exist, the
\* embedding is a vector of the table's dimension, the primary key is given and new
InsertAccepted(db, t, binds, pending) ==
    /\ HasTable(db, t)
    /\ ColumnsExist(db, t, DOMAIN binds)
    /\ ColEmbedding \in DOMAIN binds
    /\ IsVectorText(binds[ColEmbedding], db[t].dim)
    /\ db[t].pk # NoName =>
          /\ db[t].pk \in DOMAIN binds
          /\ binds[db[t].pk] # 0
          /\ binds[db[t].pk] \notin RowIds(db[t].rows) \cup RowIds(pending)

\* the committed table after the rows of a transaction are committed
InsertEffect(db, t, newRows) == [db EXCEPT ![t].rows = @ \o newRows]

\* UPDATE t SET col = :set_col, ... WHERE ... is accepted
UpdateAccepted(db, t, setCols, where, binds) ==
    /\ HasTable(db, t)
    /\ ColumnsExist(db, t, setCols)
    /\ WhereOk(db, t, where, binds)
    /\ ColEmbedding \in setCols =>
          IsVectorText(binds[SetPrefix \o ColEmbedding], db[t].dim)

\* a row after SET assigned the bound values to the columns named
UpdatedRow(r, setCols, binds) ==
    [r EXCEPT !.tag = IF ColTag \in setCols THEN binds[SetPrefix \o ColTag] ELSE @,
              !.emb = IF ColEmbedding \in setCols
                      THEN binds[SetPrefix \o ColEmbedding] ELSE @]

UpdateEffect(db, t, setCols, where, binds) ==
    [db EXCEPT ![t].rows =
        [i \in 1..Len(@) |-> IF Matches(where, binds, @[i])
                             THEN UpdatedRow(@[i], setCols, binds) ELSE @[i]]]

\* number of rows the clause selects
RowCount(db, t, where, binds) == Len(SelectRows(db[t].rows, where, binds, TRUE))

---------------------------------------------------------------------------
(* The record of a call *)

\* a call that has touched nothing yet: `io` lists its interactions with the
\* engine, `stmts` the statements it executed, `before` the database it started on
Call(op, args, db) ==
    [op |-> op, cli |-> FALSE, args |-> args, ret |-> "None", msg |-> "",
     io |-> <<>>, stmts |-> <<>>, before |-> db, out |-> <<>>]

\* the call returns ret after printing msg, the database left as it is
Return(db, c, ret, msg) == [db |-> db, call |-> [c EXCEPT !.ret = ret, !.msg = msg]]

\* `with self.engine.connect() as conn: conn.execute(st); conn.commit()`:
\* the statement takes effect and is committed when the engine accepts it;
\* otherwise the exception is caught and the connection closed
ExecuteCommit(db, c, st, accepted, effect, ret, msg, retErr, msgErr) ==
    IF accepted
    THEN [db |-> effect,
          call |-> [c EXCEPT !.io = <<"connect", "execute", "commit">>,
                             !.stmts = <<st>>, !.ret = ret, !.msg = msg]]
    ELSE [db |-> db,
          call |-> [c EXCEPT !.io = <<"connect", "execute">>,
                             !.stmts = <<st>>, !.ret = retErr, !.msg = msgErr]]

---------------------------------------------------------------------------
(* class DIEM (src/DIEM/DIEM.py) *)

\* delete_vectors without its WHERE check
DeleteVectorsUnguarded(db, eng, t, where, params) ==
    LET c == Call("delete_vectors", [table |-> t, where |-> where, params |-> params], db)
        binds == OrEmpty(params)
    IN IF ~eng THEN Return(db, c, "False", "No active DB engine.")
       ELSE IF ~IsIdentifier(t) THEN Return(db, c, "False", "Error: Invalid table name")
       ELSE ExecuteCommit(db, c, Stmt("DELETE", t, {t}, where, binds),
                          HasTable(db, t) /\ (~TruthyStr(where) \/ WhereOk(db, t, where, binds)),
                          IF TruthyStr(where) THEN DeleteEffect(db, t, where, binds)
                          ELSE [db EXCEPT ![t].rows = <<>>],
                          "True", "Successfully deleted",
                          "False", "Error deleting vectors")

\* DIEM.delete_vectors(table_name, where_clause, params)
DeleteVectors(db, eng, t, where, params) ==
    LET c == Call("delete_vectors", [table |-> t, where |-> where, params |-> params], db)
        binds == OrEmpty(params)
    IN IF ~eng THEN Return(db, c, "False", "No active DB engine.")
       ELSE IF ~IsIdentifier(t) THEN Return(db, c, "False", "Error: Invalid table name")
       ELSE IF ~TruthyStr(where)
       THEN Return(db, c, "False", "Error: A WHERE clause is required")
       ELSE ExecuteCommit(db, c, Stmt("DELETE", t, {t}, where, binds),
                          DeleteAccepted(db, t, where, binds),
                          DeleteEffect(db, t, where, binds),
                          "True", "Successfully deleted",
                          "False", "Error deleting vectors")

\* the SET parameters update_vector builds from data: set_<col> -> value,
\* the embedding as its JSON text
SetParams(data) ==
    [k \in {SetPrefix \o col : col \in DOMAIN data} |->
        LET col == CHOOSE col \in DOMAIN data : SetPrefix \o col = k
        IN IF col = ColEmbedding THEN JsonDumps(data[col]) ELSE data[col]]

\* DIEM.update_vector(table_name, data, where_clause, params)
UpdateVector(db, eng, t, data, where, params) ==
    LET c == Call("update_vector",
                  [table |-> t, data |-> data, where |-> where, params |-> params], db)
    IN IF ~eng THEN Return(db, c, "False", "No active DB engine.")
       ELSE IF ~IsIdentifier(t) THEN Return(db, c, "False", "Error: Invalid table name")
       ELSE IF ~TruthyStr(where)
       THEN Return(db, c, "False", "Error: A WHERE clause is required")
       ELSE IF ~TruthyDict(data)
       THEN Return(db, c, "False", "Error: No data provided to update.")
       ELSE IF \E col \in DOMAIN data : ~IsIdentifier(col)
       THEN Return(db, c, "False", "Error: Invalid column name")
       ELSE IF ColEmbedding \in DOMAIN data /\ ~JsonSerializable(data[ColEmbedding])
       THEN Return(db, c, "False", "Error: 'embedding' value must be a JSON-serializable list.")
       ELSE LET final_params == DictUpdate(SetParams(data), OrEmpty(params))
                st == Stmt("UPDATE", t, {t} \cup DOMAIN data, where, final_params)
            IN ExecuteCommit(db, c, st,
                             UpdateAccepted(db, t, DOMAIN data, where, final_params),
                             UpdateEffect(db, t, DOMAIN data, where, final_params),
                             "True", "Successfully updated",
                             "False", "Error updating vector")

\* insert_vector without the check of the column names
InsertVectorAnyColumn(db, eng, t, data) ==
    LET c == Call("insert_vector", [table |-> t, data |-> data], db)
    IN IF ~eng THEN Return(db, c, "None", "No active DB engine.")
       ELSE IF ~IsIdentifier(t) THEN Return(db, c, "None", "Error: Invalid table name")
       ELSE IF ColEmbedding \notin DOMAIN data
       THEN Return(db, c, "None", "Error: 'data' dictionary must contain an 'embedding' key.")
       ELSE IF ~JsonSerializable(data[ColEmbedding])
       THEN Return(db, c, "None", "Error: 'embedding' value must be a JSON-serializable list.")
       ELSE LET params == [data EXCEPT ![ColEmbedding] = JsonDumps(@)]
                st == Stmt("INSERT", t, {t} \cup DOMAIN params, None, params)
            IN ExecuteCommit(db, c, st,
                             InsertAccepted(db, t, params, <<>>),
                             InsertEffect(db, t, <<RowOf(params)>>),
                             "None", "Successfully inserted 1 row",
                             "None", "Error inserting vector")

\* DIEM.insert_vector(table_name, data)
InsertVector(db, eng, t, data) ==
    LET c == Call("insert_vector", [table |-> t, data |-> data], db)
    IN IF ~eng THEN Return(db, c, "None", "No active DB engine.")
       ELSE IF ~IsIdentifier(t) THEN Return(db, c, "None", "Error: Invalid table name")
       ELSE IF ColEmbedding \notin DOMAIN data
       THEN Return(db, c, "None", "Error: 'data' dictionary must contain an 'embedding' key.")
       ELSE IF ~JsonSerializable(data[ColEmbedding])
       THEN Return(db, c, "None", "Error: 'embedding' value must be a JSON-serializable list.")
       ELSE IF \E col \in DOMAIN data : ~IsIdentifier(col)
       THEN Return(db, c, "None", "Error: Invalid column name")
       ELSE LET params == [data EXCEPT ![ColEmbedding] = JsonDumps(@)]
                st == Stmt("INSERT", t, {t} \cup DOMAIN params, None, params)
            IN ExecuteCommit(db, c, st,
                             InsertAccepted(db, t, params, <<>>),
                             InsertEffect(db, t, <<RowOf(params)>>),
                             "None", "Successfully inserted 1 row",
                             "None", "Error inserting vector")

\* the separator create_table joins the column definitions with, and the one
\* SQL requires between the definitions of a CREATE TABLE
JoinSeparator == <<",", "n">>
SqlSeparator == <<",", "\n">>

\* CREATE TABLE t (defs joined by sep): accepted when the table is new and the
\* definitions, if more than one, are separated by a comma and white space
CreateAccepted(db, st) ==
    /\ ~HasTable(db, st.table)
    /\ st.ndefs > 1 => st.sep = SqlSeparator

CreateEffect(db, t, cols, pk, dim, metric, index) ==
    [k \in DOMAIN db \cup {t} |->
        IF k = t THEN NewTable(cols, pk, dim, metric, index) ELSE db[k]]

\* create_table that goes on to CREATE TABLE when the table exists
CreateTableUnprobed(db, eng, t, dim, other_columns, pk, metric, index) ==
    LET c == Call("create_table",
                  [table |-> t, dim |-> dim, other_columns |-> other_columns,
                   primary_key |-> pk, metric |-> metric, index |-> index], db)
        cols == DOMAIN OrEmpty(other_columns)
        probed == [c EXCEPT !.io = <<"has_table">>]
        Raise(msg) == Return(db, probed, "ValueError", msg)
    IN IF ~eng THEN Return(db, c, "None", "No active DB engine.")
       ELSE IF ~IsIdentifier(t) THEN Raise("Invalid table name")
       ELSE IF ~IsIdentifier(index) THEN Raise("Invalid index name")
       ELSE IF Lower(metric) \notin {Cosine, Euclidean} THEN Raise("Invalid distance metric.")
       ELSE IF \E col \in cols : ~IsIdentifier(col) THEN Raise("Invalid column name")
       ELSE IF TruthyName(pk) /\ ~IsIdentifier(pk)
       THEN Raise("Invalid primary key column name")
       ELSE IF TruthyName(pk) /\ pk \notin cols
       THEN Raise("Primary key is not defined in 'other_columns'.")
       ELSE LET keyed == IF TruthyName(pk) THEN pk ELSE NoName
                st == [kind |-> "CREATE", table |-> t,
                       names |-> {t, index} \cup cols
                                 \cup (IF TruthyName(pk) THEN {pk} ELSE {}),
                       where |-> None, binds |-> EmptyDict,
                       sep |-> JoinSeparator,
                       ndefs |-> Cardinality(cols) + 2 + (IF TruthyName(pk) THEN 1 ELSE 0)]
                r == ExecuteCommit(db, probed, st, CreateAccepted(db, st),
                                   CreateEffect(db, t, cols, keyed, dim, Upper(metric), index),
                                   "None", "created successfully.",
                                   "None", "Error creating table")
            IN [r EXCEPT !.call.io = <<"has_table">> \o @]

\* DIEM.create_table(table_name, vector_dim, other_columns, primary_key,
\*                   distance_metric, m, index_name)
CreateTable(db, eng, t, dim, other_columns, pk, metric, index) ==
    LET c == Call("create_table",
                  [table |-> t, dim |-> dim, other_columns |-> other_columns,
                   primary_key |-> pk, metric |-> metric, index |-> index], db)
        cols == DOMAIN OrEmpty(other_columns)
        probed == [c EXCEPT !.io = <<"has_table">>]
        Raise(msg) == Return(db, probed, "ValueError", msg)
    IN IF ~eng THEN Return(db, c, "None", "No active DB engine.")
       ELSE IF HasTable(db, t) THEN Return(db, probed, "None", "already exists.")
       ELSE IF ~IsIdentifier(t) THEN Raise("Invalid table name")
       ELSE IF ~IsIdentifier(index) THEN Raise("Invalid index name")
       ELSE IF Lower(metric) \notin {Cosine, Euclidean} THEN Raise("Invalid distance metric.")
       ELSE IF \E col \in cols : ~IsIdentifier(col) THEN Raise("Invalid column name")
       ELSE IF TruthyName(pk) /\ ~IsIdentifier(pk)
       THEN Raise("Invalid primary key column name")
       ELSE IF TruthyName(pk) /\ pk \notin cols
       THEN Raise("Primary key is not defined in 'other_columns'.")
       ELSE LET keyed == IF TruthyName(pk) THEN pk ELSE NoName
                st == [kind |-> "CREATE", table |-> t,
                       names |-> {t, index} \cup cols
                                 \cup (IF TruthyName(pk) THEN {pk} ELSE {}),
                       where |-> None, binds |-> EmptyDict,
                       sep |-> JoinSeparator,
                       ndefs |-> Cardinality(cols) + 2 + (IF TruthyName(pk) THEN 1 ELSE 0)]
                r == ExecuteCommit(db, probed, st, CreateAccepted(db, st),
                                   CreateEffect(db, t, cols, keyed, dim, Upper(metric), index),
                                   "None", "created successfully.",
                                   "None", "Error creating table")
            IN [r EXCEPT !.call.io = <<"has_table">> \o @]

\* the column the older create_table keys its tables on
ColDocId == <<"d", "o", "c", "_", "i", "d">>

\* DIEM.create_table(table_name, vector_dim, distance_metric, m) of the older
\* library (src/DIEM.py): CREATE TABLE IF NOT EXISTS, sent whether or not the
\* table exists; the engine leaves an existing table as it is
CreateTableIfNotExists(db, eng, t, dim, metric) ==
    LET c == Call("create_table_if_not_exists",
                  [table |-> t, dim |-> dim, metric |-> metric], db)
        st == Stmt("CREATE IF NOT EXISTS", t, {t}, None, EmptyDict)
    IN IF ~eng THEN Return(db, c, "None", "No active DB engine.")
       ELSE IF Lower(metric) \notin {Cosine, Euclidean}
       THEN Return(db, c, "ValueError", "Invalid distance metric.")
       ELSE ExecuteCommit(db, c, st,
                          IsIdentifier(t),
                          IF HasTable(db, t) THEN db
                          ELSE CreateEffect(db, t, {ColDocId}, ColDocId, dim,
                                            Upper(metric), NoName),
                          "None", "created successfully.",
                          "None", "Error creating table")

\* DIEM.insert_vectors(doc_id, table_name, embedding) of the older library
\* (src/DIEM.py): the INSERT text is built and the success message printed;
\* nothing is executed
InsertVectors(db, eng, doc_id, t, embedding) ==
    LET c == Call("insert_vectors",
                  [doc_id |-> doc_id, table |-> t, embedding |-> embedding], db)
    IN IF ~eng THEN Return(db, c, "None", "No active DB engine.")
       ELSE Return(db, c, "None", "Vectors Inserted Successfully")

\* delete_table that compares the answer with a prefix of 'yes'
DeleteTablePrefixAnswer(db, eng, t, answer) ==
    LET c == Call("delete_table", [table |-> t, answer |-> answer], db)
        asked == [c EXCEPT !.out = <<"prompt">>]
        low == Lower(answer)
    IN IF ~eng THEN Return(db, c, "False", "No active DB engine.")
       ELSE IF ~IsIdentifier(t) THEN Return(db, c, "False", "Error: Invalid table name")
       ELSE IF low = <<>> \/ Len(low) > Len(Yes) \/ low # SubSeq(Yes, 1, Len(low))
       THEN Return(db, asked, "False", "Aborted. Table was not deleted.")
       ELSE ExecuteCommit(db, asked, Stmt("DROP", t, {t}, None, EmptyDict),
                          TRUE,
                          [k \in DOMAIN db \ {t} |-> db[k]],
                          "True", "Successfully deleted table",
                          "False", "Error deleting table")

\* DIEM.delete_table(table_name), `answer` being what the user types at the prompt
DeleteTable(db, eng, t, answer) ==
    LET c == Call("delete_table", [table |-> t, answer |-> answer], db)
        asked == [c EXCEPT !.out = <<"prompt">>]
    IN IF ~eng THEN Return(db, c, "False", "No active DB engine.")
       ELSE IF ~IsIdentifier(t) THEN Return(db, c, "False", "Error: Invalid table name")
       ELSE IF Lower(answer) # Yes
       THEN Return(db, asked, "False", "Aborted. Table was not deleted.")
       ELSE ExecuteCommit(db, asked, Stmt("DROP", t, {t}, None, EmptyDict),
                          TRUE,
                          [k \in DOMAIN db \ {t} |-> db[k]],
                          "True", "Successfully deleted table",
                          "False", "Error deleting table")

\* DIEM.get_all_from_table(table_name): the rows, or None
GetAllFromTable(db, eng, t) ==
    LET c == Call("get_all_from_table", [table |-> t], db)
        st == Stmt("SELECT", t, {t}, None, EmptyDict)
    IN IF ~eng THEN Return(db, c, "None", "No active DB engine.")
       ELSE IF ~IsIdentifier(t) THEN Return(db, c, "None", "Error: Invalid table name")
       ELSE IF HasTable(db, t)
       THEN [db |-> db,
             call |-> [c EXCEPT !.io = <<"connect", "execute">>, !.stmts = <<st>>,
                                !.ret = "rows", !.out = db[t].rows]]
       ELSE [db |-> db,
             call |-> [c EXCEPT !.io = <<"connect", "execute">>, !.stmts = <<st>>,
                                !.msg = "Error fetching from table"]]

\* the numbers of a flat array text of one-digit numbers
RECURSIVE TextItems(_)
TextItems(s) ==
    IF s = <<>> THEN <<>>
    ELSE IF Head(s) \in Digits
    THEN <<CHOOSE n \in 0..9 : ToString(n) = Head(s)>> \o TextItems(Tail(s))
    ELSE TextItems(Tail(s))

RECURSIVE Dot(_, _)
Dot(a, b) == IF a = <<>> \/ b = <<>> THEN 0 ELSE a[1] * b[1] + Dot(Tail(a), Tail(b))

\* VEC_DISTANCE_EUCLIDEAN(a, q), squared
SqDistance(a, q) == Dot(a, a) - 2 * Dot(a, q) + Dot(q, q)

\* row r is at most as far from q as row u under the metric (lower-cased);
\* for cosine, 1 - a.q/(|a||q|) compared without the roots, all numbers being positive
NotFarther(metric, q, r, u) ==
    LET a == TextItems(r.emb)
        b == TextItems(u.emb)
    IN IF metric = Euclidean THEN SqDistance(a, q) <= SqDistance(b, q)
       ELSE Dot(a, q) * Dot(a, q) * Dot(b, b) >= Dot(b, q) * Dot(b, q) * Dot(a, a)

\* ORDER BY distance ASC, rows at the same distance in table order
RECURSIVE OrderByDistance(_, _, _)
OrderByDistance(metric, q, rows) ==
    IF rows = <<>> THEN <<>>
    ELSE LET sorted == OrderByDistance(metric, q, Tail(rows))
             r == Head(rows)
             before == {i \in 1..Len(sorted) : ~NotFarther(metric, q, r, sorted[i])}
         IN SubSeq(sorted, 1, Cardinality(before)) \o <<r>>
            \o SubSeq(sorted, Cardinality(before) + 1, Len(sorted))

\* LIMIT k
Limit(rows, k) == SubSeq(rows, 1, IF k < Len(rows) THEN k ELSE Len(rows))

\* similarity_search that orders by the cosine distance whatever the metric
SimilaritySearchCosineOnly(db, eng, t, query_vector, metric, top_k) ==
    LET c == Call("similarity_search",
                  [table |-> t, query_vector |-> query_vector, metric |-> metric,
                   top_k |-> top_k], db)
    IN IF ~eng THEN Return(db, c, "None", "No active DB engine.")
       ELSE IF Lower(metric) \notin {Cosine, Euclidean}
       THEN Return(db, c, "None", "Error: Invalid distance metric.")
       ELSE IF ~JsonSerializable(query_vector)
       THEN Return(db, c, "None", "Error: 'query_vector' must be a JSON-serializable list.")
       ELSE LET query_vec_json == JsonDumps(query_vector)
                st == Stmt("SELECT", t, {t}, None,
                           [k \in {QueryVec, TopK} |->
                               IF k = QueryVec THEN query_vec_json ELSE top_k])
            IN IF HasTable(db, t) /\ IsVectorText(query_vec_json, db[t].dim)
               THEN [db |-> db,
                     call |-> [c EXCEPT !.io = <<"connect", "execute">>, !.stmts = <<st>>,
                                        !.ret = "rows",
                                        !.out = Limit(OrderByDistance(Cosine,
                                                        TextItems(query_vec_json),
                                                        db[t].rows), top_k)]]
               ELSE [db |-> db,
                     call |-> [c EXCEPT !.io = <<"connect", "execute">>, !.stmts = <<st>>,
                                        !.msg = "Error during similarity search"]]

\* DIEM.similarity_search(table_name, query_vector, distance_metric, top_k)
SimilaritySearch(db, eng, t, query_vector, metric, top_k) ==
    LET c == Call("similarity_search",
                  [table |-> t, query_vector |-> query_vector, metric |-> metric,
                   top_k |-> top_k], db)
    IN IF ~eng THEN Return(db, c, "None", "No active DB engine.")
       ELSE IF Lower(metric) \notin {Cosine, Euclidean}
       THEN Return(db, c, "None", "Error: Invalid distance metric.")
       ELSE IF ~JsonSerializable(query_vector)
       THEN Return(db, c, "None", "Error: 'query_vector' must be a JSON-serializable list.")
       ELSE LET query_vec_json == JsonDumps(query_vector)
                st == Stmt("SELECT", t, {t}, None,
                           [k \in {QueryVec, TopK} |->
                               IF k = QueryVec THEN query_vec_json ELSE top_k])
            IN IF HasTable(db, t) /\ IsVectorText(query_vec_json, db[t].dim)
               THEN [db |-> db,
                     call |-> [c EXCEPT !.io = <<"connect", "execute">>, !.stmts = <<st>>,
                                        !.ret = "rows",
                                        !.out = Limit(OrderByDistance(Lower(metric),
                                                        TextItems(query_vec_json),
                                                        db[t].rows), top_k)]]
               ELSE [db |-> db,
                     call |-> [c EXCEPT !.io = <<"connect", "execute">>, !.stmts = <<st>>,
                                        !.msg = "Error during similarity search"]]

---------------------------------------------------------------------------
(* DIEM.batch_insert_vectors (src/DIEM/DIEM.py), one row of the file per step *)

\* no batch is running
NoBatch == [table |-> NoName]

\* a CSV file as open() and csv.DictReader see it: whether it exists, and its
\* header; the data rows are read one at a time
CsvFile(exists, fieldnames) == [exists |-> exists, fieldnames |-> fieldnames]

Range(f) == {f[i] : i \in DOMAIN f}

\* headers: none (an empty file), one without an embedding column, the usual
\* one, one with a column that is no identifier, and the embedding column alone
Headers == {<<>>, <<ColId>>, <<ColId, ColEmbedding>>, <<ColId, ColEmbedding, ColBad>>,
            <<ColEmbedding>>}

Files == {CsvFile(FALSE, <<>>)} \cup {CsvFile(TRUE, h) : h \in Headers}

\* the rows DictReader can yield for a header: a cell of the id column is a
\* number, a cell of the embedding column any text, or None when the line is
\* shorter than the header (the first cell of a line is never missing)
CsvRows(fieldnames) ==
    {[col \in Range(fieldnames) |->
         IF col = ColId THEN i ELSE IF col = ColEmbedding THEN e ELSE <<"x">>] :
     i \in Ids,
     e \in EmbTexts \cup (IF fieldnames[1] = ColEmbedding THEN {} ELSE {NoName})}

\* the part of batch_insert_vectors before the row loop: the call returns
\* early (open = FALSE), or the transaction is begun
BatchOpen(db, eng, t, file) ==
    LET c == Call("batch_insert_vectors", [table |-> t, file |-> file], db)
        connected == [c EXCEPT !.io = <<"connect">>]
        columns == {col \in Range(file.fieldnames) : IsIdentifier(col)}
        Early(cc, msg) == [open |-> FALSE, call |-> [cc EXCEPT !.msg = msg], bat |-> NoBatch]
    IN IF ~eng THEN Early(c, "No active DB engine.")
       ELSE IF ~file.exists THEN Early(connected, "Error: File not found")
       ELSE IF file.fieldnames = <<>> THEN Early(connected, "Error: CSV file is empty or invalid.")
       ELSE IF ColEmbedding \notin Range(file.fieldnames)
       THEN Early(connected, "Error: CSV file must have an 'embedding' column.")
       ELSE [open |-> TRUE,
             call |-> [c EXCEPT !.ret = "running"],
             bat |-> [table |-> t, fieldnames |-> file.fieldnames, columns |-> columns,
                      n |-> 0, count |-> 0, skipped |-> 0, pending |-> <<>>,
                      failed |-> FALSE,
                      call |-> [connected EXCEPT !.io = @ \o <<"begin">>]]]

\* the parameters of one row: {col: row[col] for col in columns}
RowParams(b, row) == [col \in b.columns |-> row[col]]

\* the statement of the row loop, with the parameters of one row
BatchStmt(b, row) ==
    Stmt("INSERT", b.table, {b.table} \cup b.columns, None, RowParams(b, row))

\* one iteration of `for row in reader`: the row is skipped (`except
\* json.JSONDecodeError: continue`), or executed, or an exception leaves the
\* loop (failed) for the handler that rolls back
BatchStep(db, b, row) ==
    LET params == RowParams(b, row)
        parsed == JsonLoads(params[ColEmbedding])
        read == [b EXCEPT !.n = @ + 1]
        sent == [read EXCEPT !.call.io = @ \o <<"execute">>,
                             !.call.stmts = @ \o <<BatchStmt(b, row)>>]
    IN IF parsed = "JSONDecodeError" THEN [read EXCEPT !.skipped = @ + 1]
       ELSE IF parsed = "TypeError" THEN [read EXCEPT !.failed = TRUE]
       ELSE IF InsertAccepted(db, b.table, params, b.pending)
       THEN [sent EXCEPT !.count = @ + 1, !.pending = @ \o <<RowOf(params)>>]
       ELSE [sent EXCEPT !.failed = TRUE]

\* transaction.commit(): the rows executed become the table's
BatchCommitEffect(db, b) ==
    IF b.pending = <<>> THEN db ELSE InsertEffect(db, b.table, b.pending)

\* a rollback that is lost: the rows executed stay, as under autocommit
RollbackKeepsRows(db, b) == BatchCommitEffect(db, b)

\* transaction.rollback(): the rows executed are discarded
BatchRollbackEffect(db, b) == db

---------------------------------------------------------------------------
(* class DEAM (src/DIEM2.py) *)

\* the rows of s whose id is not in ids / whose tag is not the one filtered on
RECURSIVE RowsWithout(_, _, _)
RowsWithout(s, ids, filter_by) ==
    IF s = <<>> THEN <<>>
    ELSE LET rest == RowsWithout(Tail(s), ids, filter_by)
             hit == IF ids # <<>> THEN Head(s).id \in Range(ids)
                    ELSE \A k \in DOMAIN filter_by : k = ColTag /\ Head(s).tag = filter_by[k]
         IN IF hit THEN rest ELSE <<Head(s)>> \o rest

\* DEAM.delete_vectors(table_name, ids, filter_by, delete_all); ids is <<>>
\* for None and for the empty list alike
DeamDeleteVectors(db, conn, t, ids, filter_by, delete_all) ==
    LET c == Call("DEAM.delete_vectors",
                  [table |-> t, ids |-> ids, filter_by |-> filter_by,
                   delete_all |-> delete_all], db)
        Execute(st, effect) ==
            IF HasTable(db, t)
            THEN [db |-> effect,
                  call |-> [c EXCEPT !.io = <<"execute", "commit">>, !.stmts = <<st>>,
                                     !.msg = "Deleted vectors"]]
            ELSE [db |-> db,
                  call |-> [c EXCEPT !.io = <<"execute">>, !.stmts = <<st>>,
                                     !.ret = "mysql.connector.Error"]]
    IN IF ~conn THEN Return(db, c, "ConnectionError", "")
       ELSE IF delete_all
       THEN Execute(Stmt("TRUNCATE", t, {t}, None, EmptyDict),
                    [db EXCEPT ![t].rows = <<>>])
       ELSE IF ids # <<>>
       THEN Execute(Stmt("DELETE", t, {t}, "id IN (ids)", EmptyDict),
                    [db EXCEPT ![t].rows = RowsWithout(@, ids, EmptyDict)])
       ELSE IF TruthyDict(filter_by)
       THEN Execute(Stmt("DELETE", t, {t}, "JSON_EXTRACT(metadata, k) = v", EmptyDict),
                    [db EXCEPT ![t].rows = RowsWithout(@, <<>>, filter_by)])
       ELSE Return(db, c, "None", "No deletion criteria provided.")

\* DEAM.connection has no transaction open
NoTransaction == <<>>

\* the database as a statement on DEAM.connection sees it: the committed one,
\* or the one its open transaction has made
View(db, tx) == IF tx = NoTransaction THEN db ELSE tx[1]

\* the thread of _async_sync_to_columnstore has not been started
NoThread == [pc |-> "off", source |-> NoName, rows |-> <<>>, cs |-> {}]

\* a vector handed in as bytes, four for each float
PyBytes(n) == [py |-> "bytes", v |-> [i \in 1..(4 * n) |-> "00"]]

\* the `vectors` argument: lists of bytes and of Python lists
VectorLists ==
    {<<>>, <<PyBytes(2)>>, <<PyBytes(2), PyBytes(2)>>, <<PyBytes(2), PyBytes(1)>>,
     <<PyList(<<1, 2>>)>>}

\* the table that create_index makes: id INT AUTO_INCREMENT PRIMARY KEY,
\* vector VECTOR(2), metadata JSON
DeamTable ==
    NewTable({ColId, <<"v", "e", "c", "t", "o", "r">>,
              <<"m", "e", "t", "a", "d", "a", "t", "a">>}, ColId, 2, Upper(Euclidean), NoName)

\* the value AUTO_INCREMENT gives the next row
NextId(rows) ==
    IF rows = <<>> THEN 1
    ELSE 1 + CHOOSE m \in RowIds(rows) : \A k \in RowIds(rows) : k <= m

\* cursor.execute(sql, (vec, json.dumps(meta))): the connector converts bytes
\* to a parameter and raises on a list; the engine stores 4 * dim bytes in a
\* VECTOR(dim) column
DeamInsertAccepted(view, t, vec) ==
    /\ HasTable(view, t)
    /\ vec.py = "bytes"
    /\ Len(vec.v) = 4 * view[t].dim

\* a multi-row write returns before its loop: _ensure_connection or the
\* length check raises
DeamEarly(c, ret) == [open |-> FALSE, call |-> [c EXCEPT !.ret = ret], bat |-> NoBatch]

\* a multi-row write enters its loop with a cursor of self.connection; rows
\* are the rows it has written so far
DeamRunning(c, t) ==
    [open |-> TRUE,
     call |-> [c EXCEPT !.ret = "running"],
     bat |-> [table |-> t, i |-> 0, rows |-> <<>>, call |-> c]]

\* DEAM.insert_vectors(table_name, vectors, metadata) up to its row loop
DeamInsertVectors(db, conn, t, vectors, metadata) ==
    LET c == Call("DEAM.insert_vectors",
                  [table |-> t, vectors |-> vectors, metadata |-> metadata], db)
    IN IF ~conn THEN DeamEarly(c, "ConnectionError")
       ELSE IF Len(vectors) # Len(metadata) THEN DeamEarly(c, "ValueError")
       ELSE DeamRunning(c, t)

\* DEAM.update_vectors(table_name, ids, new_vectors, new_metadata) up to its
\* row loop; <<>> is None or the empty list
DeamUpdateVectors(db, conn, t, ids, new_vectors, new_metadata) ==
    LET c == Call("DEAM.update_vectors",
                  [table |-> t, ids |-> ids, new_vectors |-> new_vectors,
                   new_metadata |-> new_metadata], db)
    IN IF ~conn THEN DeamEarly(c, "ConnectionError")
       ELSE IF \/ new_vectors # <<>> /\ Len(new_vectors) # Len(ids)
               \/ new_metadata # <<>> /\ Len(new_metadata) # Len(ids)
       THEN DeamEarly(c, "ValueError")
       ELSE DeamRunning(c, t)

\* the length of the row loop of the running write
DeamRows(b) ==
    IF b.call.op = "DEAM.update_vectors" THEN Len(b.call.args.ids)
    ELSE Len(b.call.args.vectors)

\* one iteration of the row loop of insert_vectors or update_vectors, on the
\* database as the connection sees it: the statement is executed (ok), or
\* cursor.execute raises and the call ends without a commit or a rollback
DeamWriteStep(view, b) ==
    LET i == b.i + 1
        a == b.call.args
        t == b.table
        next == [b EXCEPT !.i = i]
        Sent(st) == [next EXCEPT !.call.io = @ \o <<"execute">>,
                                 !.call.stmts = @ \o <<st>>]
    IN IF b.call.op = "DEAM.insert_vectors"
       THEN LET st == Stmt("INSERT", t, {t}, None, EmptyDict)
                row == Row(NextId(view[t].rows), a.metadata[i], a.vectors[i].v)
            IN IF DeamInsertAccepted(view, t, a.vectors[i])
               THEN [ok |-> TRUE, view |-> InsertEffect(view, t, <<row>>),
                     bat |-> [Sent(st) EXCEPT !.rows = @ \o <<row>>]]
               ELSE [ok |-> FALSE, view |-> view, bat |-> Sent(st)]
       ELSE LET id == a.ids[i]
                setVec == a.new_vectors # <<>>
                setMeta == a.new_metadata # <<>>
                text == JsonDumps(a.new_vectors[i])
                st == Stmt("UPDATE", t, {t}, "id = vec_id", EmptyDict)
                Written(r) ==
                    IF r.id # id THEN r
                    ELSE [r EXCEPT !.tag = IF setMeta THEN a.new_metadata[i] ELSE @,
                                   !.emb = IF setVec THEN text ELSE @]
                rows == [k \in 1..Len(view[t].rows) |-> Written(view[t].rows[k])]
            IN IF ~setVec /\ ~setMeta THEN [ok |-> TRUE, view |-> view, bat |-> next]
               ELSE IF HasTable(view, t) /\ (setVec => Len(text) = 4 * view[t].dim)
               THEN [ok |-> TRUE, view |-> [view EXCEPT ![t].rows = rows],
                     bat |-> [Sent(st) EXCEPT
                                !.rows = @ \o SelectSeq(rows, LAMBDA r : r.id = id)]]
               ELSE [ok |-> FALSE, view |-> view, bat |-> Sent(st)]

\* DEAM.batch_insert_vectors(table_name, vectors, metadata, batch_size) up to
\* its loop over the chunks; <<>> is metadata=None or the empty list
DeamBatchInsertVectors(db, conn, t, vectors, metadata, batch_size) ==
    LET c == Call("DEAM.batch_insert_vectors",
                  [table |-> t, vectors |-> vectors, metadata |-> metadata,
                   batch_size |-> batch_size], db)
    IN IF ~conn THEN DeamEarly(c, "ConnectionError")
       ELSE IF metadata # <<>> /\ Len(metadata) # Len(vectors)
       THEN DeamEarly(c, "ValueError")
       ELSE DeamRunning(c, t)

\* one iteration of `for i in range(0, len(vectors), batch_size)`:
\* executemany sends the chunk as one INSERT, which the engine takes whole or
\* not at all, and self.connection.commit() follows (ok); or executemany
\* raises and the call ends
DeamChunkStep(view, b) ==
    LET a == b.call.args
        t == b.table
        lo == b.i + 1
        hi == IF b.i + a.batch_size < Len(a.vectors) THEN b.i + a.batch_size
              ELSE Len(a.vectors)
        first == NextId(view[t].rows)
        rows == [k \in 1..(hi - lo + 1) |->
                    Row(first + k - 1,
                        IF a.metadata = <<>> THEN "NULL" ELSE a.metadata[lo + k - 1],
                        a.vectors[lo + k - 1].v)]
        sent == [b EXCEPT !.i = hi, !.call.io = @ \o <<"execute">>,
                          !.call.stmts = @ \o <<Stmt("INSERT", t, {t}, None, EmptyDict)>>]
    IN IF \A k \in lo..hi : DeamInsertAccepted(view, t, a.vectors[k])
       THEN [ok |-> TRUE, view |-> InsertEffect(view, t, rows),
             bat |-> [sent EXCEPT !.call.io = @ \o <<"commit">>, !.rows = @ \o rows]]
       ELSE [ok |-> FALSE, view |-> view, bat |-> sent]

---------------------------------------------------------------------------
(* The command line (src/diem/cli.py): every invocation is a new process *)

\* connection URIs typed at the prompt of `connect`
UriUp == "mariadb://up"
UriDown == "mariadb://down"
Uris == {UriUp, UriDown, ""}

\* the URI names the database server: DIEM(uri) gets an engine when the server
\* is up at that moment (create_engine and a first connection succeed)
Reachable(uri) == uri = UriUp

\* a --params argument: absent, or its text with what json.loads makes of it
NoArg == [given |-> FALSE, valid |-> FALSE, value |-> NoDict]
JsonArg(d) == [given |-> TRUE, valid |-> TRUE, value |-> d]
BadJsonArg == [given |-> TRUE, valid |-> FALSE, value |-> NoDict]

\* init_db() and the argument checks common to the commands: the message that
\* ends the invocation before the library is called, or "" when it is called;
\* `required` tells whether every required argument is there
CliGate(cfg, up, required, requiredMsg, jsonArgs) ==
    IF ~TruthyStr(cfg) THEN "Error: Not connected."
    ELSE IF ~(Reachable(cfg) /\ up) THEN "Error connecting to MariaDB"
    ELSE IF ~required THEN requiredMsg
    ELSE IF \E a \in jsonArgs : a.given /\ ~a.valid THEN "Error: Invalid JSON"
    ELSE ""

\* the record of an invocation that ended at the gate; DIEM(uri) has connected
\* once when a URI was configured
CliStopped(db, cfg, op, args, msg) ==
    [db |-> db,
     call |-> [Call(op, args, db) EXCEPT
                  !.cli = TRUE, !.msg = msg,
                  !.io = IF TruthyStr(cfg) THEN <<"connect">> ELSE <<>>]]

\* the record of an invocation that called the library: DIEM(uri) connected first
CliCalled(r) == [r EXCEPT !.call.cli = TRUE, !.call.io = <<"connect">> \o @]

\* `delete_vectors --table T --where W [--params P]`
CliDeleteVectors(db, cfg, up, t, where, paramsArg) ==
    LET gate == CliGate(cfg, up, TruthyName(t) /\ TruthyStr(where),
                        "Error: --table and --where are required for safety.",
                        {paramsArg})
        where_params == IF paramsArg.given THEN paramsArg.value ELSE EmptyDict
    IN IF gate # ""
       THEN CliStopped(db, cfg, "delete_vectors",
                       [table |-> t, where |-> where, params |-> paramsArg.value], gate)
       ELSE CliCalled(DeleteVectors(db, TRUE, t, where, where_params))

\* `update_vector --table T --where W --data D [--params P]`
CliUpdateVector(db, cfg, up, t, dataArg, where, paramsArg) ==
    LET gate == CliGate(cfg, up, TruthyName(t) /\ TruthyStr(where) /\ dataArg.given,
                        "Error: --table, --where, and --data are required.",
                        {dataArg, paramsArg})
        where_params == IF paramsArg.given THEN paramsArg.value ELSE EmptyDict
    IN IF gate # ""
       THEN CliStopped(db, cfg, "update_vector",
                       [table |-> t, data |-> dataArg.value, where |-> where,
                        params |-> paramsArg.value], gate)
       ELSE CliCalled(UpdateVector(db, TRUE, t, dataArg.value, where, where_params))

\* `create_table --table T --dim D [--other_columns J] [--primary_key K]
\* [--distance M]`; an absent --dim is 0, which the command treats alike
CliCreateTable(db, cfg, up, t, dim, otherArg, pk, metric) ==
    LET gate == CliGate(cfg, up, TruthyName(t) /\ dim # 0,
                        "Error: --table and --dim are required.", {otherArg})
    IN IF gate # ""
       THEN CliStopped(db, cfg, "create_table",
                       [table |-> t, dim |-> dim, other_columns |-> otherArg.value,
                        primary_key |-> pk, metric |-> metric, index |-> VecIdx], gate)
       ELSE CliCalled(CreateTable(db, TRUE, t, dim, otherArg.value, pk, metric, VecIdx))

\* `insert_batch --table T --file PATH`, up to the row loop of the library
CliInsertBatch(db, cfg, up, t, given, file) ==
    LET gate == CliGate(cfg, up, TruthyName(t) /\ given,
                        "Error: --table and --file are required.", {})
        r == BatchOpen(db, TRUE, t, file)
    IN IF gate # ""
       THEN [open |-> FALSE, bat |-> NoBatch,
             call |-> CliStopped(db, cfg, "batch_insert_vectors",
                                 [table |-> t, file |-> file], gate).call]
       ELSE IF ~r.open
       THEN [open |-> FALSE, bat |-> NoBatch, call |-> CliCalled(r).call]
       ELSE [open |-> TRUE,
             call |-> [r.call EXCEPT !.cli = TRUE],
             bat |-> [r.bat EXCEPT !.call.cli = TRUE, !.call.io = <<"connect">> \o @]]

\* the exit status of the process: main returns or reaches sys.exit(0), unless
\* an exception of the library leaves it uncaught
ExitStatus(call) == IF call.ret = "ValueError" THEN 1 ELSE 0

\* no config file
NoConfig == None

\* the command line has not been used yet
NoHistory == [recent |-> "none", uri |-> None, linked |-> FALSE]

\* `connect`: the URI typed is saved, then DIEM(uri) tries to connect
CliConnect(db, uri, up) ==
    [config |-> uri,
     call |-> [Call("connect", [uri |-> uri], db) EXCEPT
                  !.cli = TRUE, !.io = <<"connect">>,
                  !.msg = IF Reachable(uri) /\ up THEN "Connected to MariaDB successfully."
                          ELSE "Error connecting to MariaDB"]]

\* `close`: the config file is removed when it holds a URI
CliClose(db, cfg) ==
    [config |-> IF TruthyStr(cfg) THEN NoConfig ELSE cfg,
     call |-> [Call("close", [uri |-> cfg], db) EXCEPT
                  !.cli = TRUE,
                  !.msg = IF TruthyStr(cfg) THEN "Connection configuration cleared."
                          ELSE "No active connection found to close."]]

---------------------------------------------------------------------------
(* Inputs: a usual call of every operation, and the calls that differ from it
   in one argument *)

ListA == PyList(<<1, 2>>)
ListB == PyList(<<3, 4>>)
NotSerializable == PySet({1})

\* the records of `base` with field f replaced by each value of vs
Vary(base, f, vs) == {[base EXCEPT ![f] = v] : v \in vs}

\* row-data maps for insert_vector: two rows, and maps without an embedding,
\* with one that json.dumps rejects, with one that is no vector, with a bad key
InsertData ==
    {ColId :> 1 @@ ColEmbedding :> ListA,
     ColId :> 2 @@ ColEmbedding :> ListA,
     ColId :> 1 @@ ColTag :> "a",
     ColId :> 1 @@ ColEmbedding :> NotSerializable,
     ColId :> 1 @@ ColEmbedding :> PyInt(5),
     ColBad :> 1 @@ ColEmbedding :> ListA}

InsertInputs ==
    {[t |-> T1, data |-> d] : d \in InsertData}
    \cup {[t |-> TInj, data |-> ColEmbedding :> ListA]}

\* data maps for update_vector
UpdateData ==
    {NoDict, EmptyDict, ColTag :> "b", ColEmbedding :> ListB,
     ColEmbedding :> NotSerializable, ColBad :> "b"}

\* WHERE parameter maps
WhereParams == {NoDict, Key :> 1, Key :> 2}

DeleteBase == [t |-> T1, where |-> WhereById, params |-> Key :> 1]
DeleteInputs ==
    Vary(DeleteBase, "t", TableNames)
    \cup Vary(DeleteBase, "where", WhereClauses)
    \cup Vary(DeleteBase, "params", WhereParams)
    \cup Vary([DeleteBase EXCEPT !.t = TInj], "where", {None, ""})

\* WHERE parameters with a key that has the name of a SET parameter
CollidingParams == Key :> 1 @@ (SetPrefix \o ColTag) :> "a"

UpdateBase == [t |-> T1, data |-> ColTag :> "b", where |-> WhereById, params |-> Key :> 1]
UpdateInputs ==
    Vary(UpdateBase, "t", TableNames)
    \cup Vary(UpdateBase, "data", UpdateData)
    \cup Vary(UpdateBase, "where", WhereClauses)
    \cup Vary(UpdateBase, "params", WhereParams \cup {CollidingParams})
    \cup Vary([UpdateBase EXCEPT !.data = EmptyDict], "where", {None, ""})

\* extra columns and primary keys for create_table
TwoColumns == ColId :> "INT" @@ ColTag :> "TEXT"
CreateBase ==
    [t |-> T1, dim |-> 2, other_columns |-> TwoColumns, pk |-> ColId,
     metric |-> Cosine, index |-> VecIdx]
CreateInputs ==
    Vary(CreateBase, "t", TableNames)
    \cup Vary(CreateBase, "other_columns", {NoDict, ColBad :> "INT"})
    \cup Vary(CreateBase, "pk", {NoName, ColTag, ColBad, <<"z">>})
    \cup Vary(CreateBase, "metric", MetricInputs)
    \cup Vary(CreateBase, "index", IndexInputs)

SearchBase == [t |-> T1, q |-> ListA, metric |-> Cosine, k |-> 1]
SearchInputs ==
    Vary(SearchBase, "t", TableNames)
    \cup Vary(SearchBase, "q", {PyList(<<4, 3>>), NotSerializable, PyInt(5)})
    \cup Vary(SearchBase, "metric", MetricInputs)
    \cup Vary(SearchBase, "k", {1, MaxTableRows})
    \cup Vary([SearchBase EXCEPT !.t = TInj], "metric", MetricInputs)
    \cup Vary([SearchBase EXCEPT !.q = PyList(<<2, 4>>)], "metric", MetricInputs)

DropInputs ==
    {[t |-> T1, answer |-> a] : a \in Answers} \cup {[t |-> TInj, answer |-> Yes]}

BatchInputs ==
    {[t |-> T1, file |-> f] : f \in Files}
    \cup {[t |-> TInj, file |-> CsvFile(TRUE, <<ColId, ColEmbedding>>)]}

DeamDeleteBase == [t |-> T1, ids |-> <<>>, filter_by |-> NoDict, delete_all |-> FALSE]
DeamDeleteInputs ==
    Vary(DeamDeleteBase, "t", TableNames)
    \cup Vary(DeamDeleteBase, "ids", {<<>>, <<1>>})
    \cup Vary(DeamDeleteBase, "filter_by", {NoDict, EmptyDict, ColTag :> "a"})
    \cup Vary(DeamDeleteBase, "delete_all", BOOLEAN)
    \cup Vary([DeamDeleteBase EXCEPT !.delete_all = TRUE], "ids", {<<1>>})

CliParams == {NoArg, BadJsonArg, JsonArg(Key :> 1), JsonArg(Key :> 2)}

CliDeleteBase == [t |-> T1, where |-> WhereById, params |-> JsonArg(Key :> 1)]
CliDeleteInputs ==
    Vary(CliDeleteBase, "t", TableNames \cup {NoName})
    \cup Vary(CliDeleteBase, "where", WhereClauses)
    \cup Vary(CliDeleteBase, "params", CliParams)

CliUpdateBase ==
    [t |-> T1, data |-> JsonArg(ColTag :> "b"), where |-> WhereById,
     params |-> JsonArg(Key :> 1)]
CliUpdateInputs ==
    Vary(CliUpdateBase, "t", TableNames \cup {NoName})
    \cup Vary(CliUpdateBase, "data", {NoArg, BadJsonArg, JsonArg(ColEmbedding :> ListB)})
    \cup Vary(CliUpdateBase, "where", WhereClauses)
    \cup Vary(CliUpdateBase, "params", CliParams)

CliCreateBase ==
    [t |-> T1, dim |-> 2, other |-> JsonArg(TwoColumns), pk |-> ColId, metric |-> Cosine]
CliCreateInputs ==
    Vary(CliCreateBase, "t", TableNames \cup {NoName})
    \cup Vary(CliCreateBase, "dim", {0, 2})
    \cup Vary(CliCreateBase, "other", {NoArg, BadJsonArg, JsonArg(ColBad :> "INT")})
    \cup Vary(CliCreateBase, "pk", {NoName, <<"z">>})
    \cup Vary(CliCreateBase, "metric", MetricInputs)

CliBatchInputs ==
    {[t |-> t, given |-> TRUE, file |-> f] :
        t \in {T1, NoName}, f \in {CsvFile(FALSE, <<>>), CsvFile(TRUE, <<ColId, ColEmbedding>>)}}
    \cup {[t |-> T1, given |-> FALSE, file |-> CsvFile(FALSE, <<>>)]}

\* the tables the database may hold when the program starts: none, or table t
\* with columns id and tag and primary key id
KeyedTable == NewTable({ColId, ColTag}, ColId, 2, Upper(Cosine), VecIdx)
PlainTable == NewTable({ColId, ColTag}, NoName, 2, Upper(Euclidean), VecIdx)
InitialTables == {NoTables, T1 :> KeyedTable}

\* the same, table t holding two rows
TwoRows == <<Row(1, "a", VecText), Row(2, "a", VecText2)>>
FilledTables ==
    {NoTables, T1 :> [KeyedTable EXCEPT !.rows = TwoRows],
     T1 :> [PlainTable EXCEPT !.rows = TwoRows]}

---------------------------------------------------------------------------
(* The state machine of the DIEM library *)

Init ==
    /\ tbl \in InitialTables
    /\ engine \in BOOLEAN
    /\ config = NoConfig
    /\ connection = FALSE
    /\ pc = "idle"
    /\ bat = NoBatch
    /\ hist = NoHistory
    /\ txn = NoTransaction
    /\ sync = NoThread
    /\ last = Call("none", <<>>, tbl)

\* no table is over the bound of the model
Bounded(db) == \A t \in DOMAIN db : Len(db[t].rows) <= MaxTableRows

\* a call, from start to return
Apply(r) ==
    /\ pc = "idle"
    /\ Bounded(r.db)
    /\ tbl' = r.db
    /\ last' = r.call
    /\ UNCHANGED <<txn, sync, hist, engine, config, connection, pc, bat>>

DoCreateTable ==
    \E a \in CreateInputs :
        Apply(CreateTable(tbl, engine, a.t, a.dim, a.other_columns, a.pk, a.metric, a.index))

DoCreateTableIfNotExists ==
    \E t \in TableNames, metric \in MetricInputs :
        Apply(CreateTableIfNotExists(tbl, engine, t, CreateBase.dim, metric))

DoInsertVectors ==
    \E t \in TableNames, doc_id \in Ids :
        Apply(InsertVectors(tbl, engine, doc_id, t, VecText))

DoInsertVector ==
    \E a \in InsertInputs : Apply(InsertVector(tbl, engine, a.t, a.data))

DoSimilaritySearch ==
    \E a \in SearchInputs : Apply(SimilaritySearch(tbl, engine, a.t, a.q, a.metric, a.k))

DoDeleteVectors ==
    \E a \in DeleteInputs : Apply(DeleteVectors(tbl, engine, a.t, a.where, a.params))

DoUpdateVector ==
    \E a \in UpdateInputs : Apply(UpdateVector(tbl, engine, a.t, a.data, a.where, a.params))

DoDeleteTable ==
    \E a \in DropInputs : Apply(DeleteTable(tbl, engine, a.t, a.answer))

DoGetAllFromTable ==
    \E t \in TableNames : Apply(GetAllFromTable(tbl, engine, t))

\* batch_insert_vectors up to its row loop
BatchBegin ==
    /\ pc = "idle"
    /\ \E a \in BatchInputs :
          LET r == BatchOpen(tbl, engine, a.t, a.file)
          IN /\ pc' = IF r.open THEN "batch" ELSE "idle"
             /\ bat' = r.bat
             /\ last' = r.call
    /\ UNCHANGED <<txn, sync, hist, tbl, engine, config, connection>>

\* the reader yields one more row
BatchRow ==
    /\ pc = "batch"
    /\ ~bat.failed
    /\ bat.n < MaxFileRows
    /\ \E row \in CsvRows(bat.fieldnames) :
          /\ bat' = BatchStep(tbl, bat, row)
          /\ HasTable(tbl, bat.table) =>
                Len(tbl[bat.table].rows) + Len(bat'.pending) <= MaxTableRows
    /\ UNCHANGED <<txn, sync, hist, tbl, engine, config, connection, pc, last>>

\* what the call leaves in its record when the transaction has ended
BatchOutcome(b, failed) ==
    [count |-> b.count, skipped |-> b.skipped, n |-> b.n, executed |-> b.pending,
     failed |-> failed]

\* a commit after the rows executed so far, the row loop going on
BatchCommitBetweenRows ==
    /\ pc = "batch"
    /\ ~bat.failed
    /\ bat.pending # <<>>
    /\ tbl' = BatchCommitEffect(tbl, bat)
    /\ bat' = [bat EXCEPT !.call.io = @ \o <<"commit">>, !.pending = <<>>]
    /\ UNCHANGED <<txn, sync, hist, engine, config, connection, pc, last>>

\* the reader is exhausted: transaction.commit()
BatchCommit ==
    /\ pc = "batch"
    /\ ~bat.failed
    /\ tbl' = BatchCommitEffect(tbl, bat)
    /\ last' = [bat.call EXCEPT !.io = @ \o <<"commit">>,
                                !.msg = "Successfully inserted",
                                !.out = BatchOutcome(bat, FALSE)]
    /\ pc' = "idle"
    /\ bat' = NoBatch
    /\ UNCHANGED <<txn, sync, hist, engine, config, connection>>

\* `except Exception`: transaction.rollback()
BatchRollback ==
    /\ pc = "batch"
    /\ bat.failed
    /\ tbl' = BatchRollbackEffect(tbl, bat)
    /\ last' = [bat.call EXCEPT !.io = @ \o <<"rollback">>,
                                !.msg = "Error during batch insert (rolled back)",
                                !.out = BatchOutcome(bat, TRUE)]
    /\ pc' = "idle"
    /\ bat' = NoBatch
    /\ UNCHANGED <<txn, sync, hist, engine, config, connection>>

Next ==
    \/ DoCreateTable
    \/ DoCreateTableIfNotExists
    \/ DoInsertVectors
    \/ DoInsertVector
    \/ DoSimilaritySearch
    \/ DoDeleteVectors
    \/ DoUpdateVector
    \/ DoDeleteTable
    \/ DoGetAllFromTable
    \/ BatchBegin
    \/ BatchRow
    \/ BatchCommit
    \/ BatchRollback

Spec == Init /\ [][Next]_vars

---------------------------------------------------------------------------
(* The state machine of the update and delete operations: the library calls,
   the command line and DEAM, on a database that holds rows *)

InitMutations ==
    /\ tbl \in FilledTables
    /\ engine \in BOOLEAN
    /\ config = NoConfig
    /\ connection = FALSE
    /\ pc = "idle"
    /\ bat = NoBatch
    /\ hist = NoHistory
    /\ txn = NoTransaction
    /\ sync = NoThread
    /\ last = Call("none", <<>>, tbl)

\* DEAM.connect_db(): the connection is made, or the attempt fails
DeamConnect ==
    /\ pc = "idle"
    /\ \E made \in BOOLEAN :
          /\ connection' = made
          /\ last' = [Call("DEAM.connect_db", <<>>, tbl) EXCEPT
                         !.io = <<"connect">>,
                         !.ret = IF made THEN "True" ELSE "False"]
    /\ txn' = NoTransaction
    /\ UNCHANGED <<sync, hist, tbl, engine, config, pc, bat>>

\* DEAM.close_connection()
DeamClose ==
    /\ pc = "idle"
    /\ connection
    /\ connection' = FALSE
    /\ last' = Call("DEAM.close_connection", <<>>, tbl)
    /\ txn' = NoTransaction
    /\ UNCHANGED <<sync, hist, tbl, engine, config, pc, bat>>

DoDeamDeleteVectors ==
    \E a \in DeamDeleteInputs :
        Apply(DeamDeleteVectors(tbl, connection, a.t, a.ids, a.filter_by, a.delete_all))

DoCliConnect ==
    /\ pc = "idle"
    /\ \E uri \in Uris, up \in BOOLEAN :
          LET r == CliConnect(tbl, uri, up)
          IN /\ config' = r.config
             /\ last' = r.call
             /\ hist' = [recent |-> "connect", uri |-> uri,
                         linked |-> hist.linked \/ (Reachable(uri) /\ up)]
    /\ UNCHANGED <<txn, sync, tbl, engine, connection, pc, bat>>

DoCliClose ==
    /\ pc = "idle"
    /\ LET r == CliClose(tbl, config)
       IN config' = r.config /\ last' = r.call
    /\ hist' = [hist EXCEPT !.recent = "close", !.linked = FALSE]
    /\ UNCHANGED <<txn, sync, tbl, engine, connection, pc, bat>>

DoCliDeleteVectors ==
    \E a \in CliDeleteInputs, up \in BOOLEAN :
        Apply(CliDeleteVectors(tbl, config, up, a.t, a.where, a.params))

DoCliUpdateVector ==
    \E a \in CliUpdateInputs, up \in BOOLEAN :
        Apply(CliUpdateVector(tbl, config, up, a.t, a.data, a.where, a.params))

NextMutations ==
    \/ DoDeleteVectors
    \/ DoUpdateVector
    \/ DoCliConnect
    \/ DoCliClose
    \/ DoCliDeleteVectors
    \/ DoCliUpdateVector
    \/ DeamConnect
    \/ DeamClose
    \/ DoDeamDeleteVectors

SpecMutations == InitMutations /\ [][NextMutations]_vars

---------------------------------------------------------------------------
(* The state machine of batch_insert_vectors on its own, between deletes that
   make room in the table. The file is finite and the call runs on without
   waiting for anything, so a transaction that can end does end. *)

NextBatch ==
    \/ BatchBegin
    \/ BatchRow
    \/ BatchCommit
    \/ BatchRollback
    \/ DoDeleteVectors

SpecBatch ==
    /\ Init
    /\ [][NextBatch]_vars
    /\ WF_vars(BatchCommit)
    /\ WF_vars(BatchRollback)

---------------------------------------------------------------------------
(* The identifier check on its own: names typed one character at a time, each
   prefix put to str.isidentifier() *)

\* longest name typed
MaxNameLen == 3

\* the characters typed: letters, a digit, the underscore, ASCII separators and
\* punctuation, a non-ASCII letter and a non-ASCII mark
AsciiPunctuation == {";", "'", " ", "-", "."}
NameAlphabet ==
    {"a", "Z", "1", "_"} \cup AsciiPunctuation \cup UnicodeLetters \cup UnicodeMarks

\* table_name.isidentifier() as an operation on its own
CheckName(db, s) ==
    [db |-> db,
     call |-> [Call("isidentifier", [name |-> s], db) EXCEPT
                  !.ret = IF IsIdentifier(s) THEN "True" ELSE "False"]]

InitIdentifier ==
    /\ tbl = NoTables
    /\ engine = FALSE
    /\ config = NoConfig
    /\ connection = FALSE
    /\ pc = "idle"
    /\ bat = NoBatch
    /\ hist = NoHistory
    /\ txn = NoTransaction
    /\ sync = NoThread
    /\ last = CheckName(tbl, <<>>).call

TypeCharacter ==
    /\ last.op = "isidentifier"
    /\ Len(last.args.name) < MaxNameLen
    /\ \E c \in NameAlphabet : Apply(CheckName(tbl, last.args.name \o <<c>>))

NextIdentifier == TypeCharacter

SpecIdentifier == InitIdentifier /\ [][NextIdentifier]_vars

---------------------------------------------------------------------------
(* The state machine of similarity search: searches between the writes that
   change which rows a table holds and where their embeddings lie *)

InitSearch ==
    /\ tbl \in FilledTables
    /\ engine \in BOOLEAN
    /\ config = NoConfig
    /\ connection = FALSE
    /\ pc = "idle"
    /\ bat = NoBatch
    /\ hist = NoHistory
    /\ txn = NoTransaction
    /\ sync = NoThread
    /\ last = Call("none", <<>>, tbl)

NextSearch ==
    \/ DoSimilaritySearch
    \/ DoInsertVector
    \/ DoUpdateVector
    \/ DoDeleteVectors

SpecSearch == InitSearch /\ [][NextSearch]_vars

---------------------------------------------------------------------------
(* The state machine of the command line: invocations of `diem` one after
   the other, the database server being up or down at each of them *)

InitCli ==
    /\ tbl \in InitialTables
    /\ engine = FALSE
    /\ config = NoConfig
    /\ connection = FALSE
    /\ pc = "idle"
    /\ bat = NoBatch
    /\ hist = NoHistory
    /\ txn = NoTransaction
    /\ sync = NoThread
    /\ last = Call("none", <<>>, tbl)

DoCliCreateTable ==
    \E a \in CliCreateInputs, up \in BOOLEAN :
        Apply(CliCreateTable(tbl, config, up, a.t, a.dim, a.other, a.pk, a.metric))

\* `insert_batch` up to the row loop of batch_insert_vectors
CliBatchBegin ==
    /\ pc = "idle"
    /\ \E a \in CliBatchInputs, up \in BOOLEAN :
          LET r == CliInsertBatch(tbl, config, up, a.t, a.given, a.file)
          IN /\ pc' = IF r.open THEN "batch" ELSE "idle"
             /\ bat' = r.bat
             /\ last' = r.call
    /\ UNCHANGED <<txn, sync, hist, tbl, engine, config, connection>>

NextCli ==
    \/ DoCliConnect
    \/ DoCliClose
    \/ DoCliCreateTable
    \/ DoCliDeleteVectors
    \/ DoCliUpdateVector
    \/ CliBatchBegin
    \/ BatchRow
    \/ BatchCommit
    \/ BatchRollback

SpecCli == InitCli /\ [][NextCli]_vars

---------------------------------------------------------------------------
(* The state machine of the multi-row writes of DEAM (src/DIEM2.py) and of
   the thread that init_analytics starts, all on the one DEAM.connection *)

InitDeam ==
    /\ tbl \in {NoTables, T1 :> DeamTable}
    /\ engine = FALSE
    /\ config = NoConfig
    /\ connection = FALSE
    /\ pc = "idle"
    /\ bat = NoBatch
    /\ hist = NoHistory
    /\ txn = NoTransaction
    /\ sync = NoThread
    /\ last = Call("none", <<>>, tbl)

\* a multi-row write from its call to its loop
DeamBegin(r) ==
    /\ pc' = IF r.open THEN "deam_write" ELSE "idle"
    /\ bat' = r.bat
    /\ last' = r.call
    /\ UNCHANGED <<txn, sync, hist, tbl, engine, config, connection>>

DeamInsertBegin ==
    /\ pc = "idle"
    /\ \E v \in VectorLists, m \in {<<>>, <<"a">>, <<"a", "b">>} :
          DeamBegin(DeamInsertVectors(View(tbl, txn), connection, T1, v, m))

DeamUpdateBegin ==
    /\ pc = "idle"
    /\ \E ids \in {<<1>>, <<1, 2>>}, v \in {<<>>, <<PyList(<<1, 2>>)>>},
          m \in {<<>>, <<"b">>, <<"b", "b">>} :
          DeamBegin(DeamUpdateVectors(View(tbl, txn), connection, T1, ids, v, m))

\* after the loop: self.connection.commit() makes durable whatever the
\* connection's transaction holds
DeamWriteCommit ==
    /\ pc = "deam_write"
    /\ bat.call.op # "DEAM.batch_insert_vectors"
    /\ bat.i = DeamRows(bat)
    /\ tbl' = View(tbl, txn)
    /\ txn' = NoTransaction
    /\ last' = [bat.call EXCEPT !.io = @ \o <<"commit">>, !.msg = "Inserted / Updated",
                                !.out = [rows |-> bat.rows]]
    /\ pc' = "idle"
    /\ bat' = NoBatch
    /\ UNCHANGED <<sync, hist, engine, config, connection>>

\* what a step of a running write leaves: the loop goes on, or the exception
\* of the statement ends the call, the transaction left as it is
DeamStepped(r) ==
    /\ Bounded(r.view)
    /\ IF r.ok
       THEN /\ bat' = r.bat
            /\ UNCHANGED <<pc, last>>
       ELSE /\ bat' = NoBatch
            /\ pc' = "idle"
            /\ last' = [r.bat.call EXCEPT !.ret = "mysql.connector.Error",
                                         !.out = [rows |-> r.bat.rows]]
    /\ UNCHANGED <<sync, hist, engine, config, connection>>

\* one row of insert_vectors or update_vectors
DeamWriteRow ==
    /\ pc = "deam_write"
    /\ bat.call.op # "DEAM.batch_insert_vectors"
    /\ bat.i < DeamRows(bat)
    /\ LET r == DeamWriteStep(View(tbl, txn), bat)
       IN /\ DeamStepped(r)
          /\ txn' = IF r.ok /\ r.view # View(tbl, txn) THEN <<r.view>> ELSE txn
          /\ UNCHANGED tbl

DeamBatchBegin ==
    /\ pc = "idle"
    /\ \E v \in VectorLists, m \in {<<>>, <<"a">>, <<"a", "b">>}, size \in {1, 2} :
          DeamBegin(DeamBatchInsertVectors(View(tbl, txn), connection, T1, v, m, size))

\* one chunk of batch_insert_vectors, its commit included
DeamBatchChunk ==
    /\ pc = "deam_write"
    /\ bat.call.op = "DEAM.batch_insert_vectors"
    /\ bat.i < DeamRows(bat)
    /\ LET r == DeamChunkStep(View(tbl, txn), bat)
       IN /\ DeamStepped(r)
          /\ tbl' = IF r.ok THEN r.view ELSE tbl
          /\ txn' = IF r.ok THEN NoTransaction ELSE txn

\* the chunks are through: cursor.close() and the total is printed
DeamBatchEnd ==
    /\ pc = "deam_write"
    /\ bat.call.op = "DEAM.batch_insert_vectors"
    /\ bat.i = DeamRows(bat)
    /\ last' = [bat.call EXCEPT !.msg = "Total inserted vectors",
                                !.out = [rows |-> bat.rows]]
    /\ pc' = "idle"
    /\ bat' = NoBatch
    /\ UNCHANGED <<txn, sync, hist, tbl, engine, config, connection>>

\* DEAM.init_analytics(source_table, cs_table): CREATE TABLE ... ENGINE=
\* Columnstore ends the open transaction with a commit, as every CREATE TABLE
\* does; the engine makes the table or, having no such storage engine or no
\* such column types in it, raises; then the thread is started (one thread in
\* the model)
InitAnalytics ==
    /\ pc = "idle"
    /\ sync.pc = "off"
    /\ LET c == Call("DEAM.init_analytics", [source |-> T1], tbl)
       IN IF ~connection
          THEN /\ last' = [c EXCEPT !.ret = "ConnectionError"]
               /\ UNCHANGED <<tbl, txn, sync>>
          ELSE /\ tbl' = View(tbl, txn)
               /\ txn' = NoTransaction
               /\ \E made \in BOOLEAN :
                     IF made
                     THEN /\ sync' = [NoThread EXCEPT !.pc = "select", !.source = T1]
                          /\ last' = [c EXCEPT !.io = <<"execute">>,
                                               !.msg = "Started async sync"]
                     ELSE /\ sync' = sync
                          /\ last' = [c EXCEPT !.io = <<"execute">>,
                                               !.ret = "mysql.connector.Error"]
    /\ UNCHANGED <<hist, engine, config, connection, pc, bat>>

\* a statement on a connection that has no transaction open begins one
Begun(db, tx) == IF tx = NoTransaction THEN <<db>> ELSE tx

\* the thread: self.connection.cursor(), SELECT * FROM source LIMIT n and
\* fetchall(); no rows and it closes the cursor and sleeps; an exception ends
\* the thread
SyncSelect ==
    /\ sync.pc = "select"
    /\ LET view == View(tbl, txn)
       IN IF ~connection
          THEN /\ sync' = [sync EXCEPT !.pc = "dead"]
               /\ txn' = txn
          ELSE IF ~HasTable(view, sync.source)
          THEN /\ sync' = [sync EXCEPT !.pc = "dead"]
               /\ txn' = txn
          ELSE /\ txn' = Begun(tbl, txn)
               /\ IF view[sync.source].rows = <<>>
                  THEN sync' = [sync EXCEPT !.pc = "sleep"]
                  ELSE sync' = [sync EXCEPT !.pc = "copy",
                                            !.rows = view[sync.source].rows]
    /\ UNCHANGED <<hist, tbl, engine, config, connection, pc, bat, last>>

\* the thread: time.sleep(interval) returns and the loop goes round
SyncWake ==
    /\ sync.pc = "sleep"
    /\ sync' = [sync EXCEPT !.pc = "select"]
    /\ UNCHANGED <<txn, hist, tbl, engine, config, connection, pc, bat, last>>

\* the thread: `for row in rows`, an INSERT into cs_table each; np.linalg.norm
\* takes the value the connector returned for the VECTOR column or raises, and
\* an id that cs_table holds already is a duplicate key
SyncCopy ==
    /\ sync.pc = "copy"
    /\ \E readable \in BOOLEAN :
          IF ~connection \/ ~readable \/ RowIds(sync.rows) \cap sync.cs # {}
          THEN sync' = [sync EXCEPT !.pc = "dead"]
          ELSE sync' = [sync EXCEPT !.pc = "commit", !.cs = @ \cup RowIds(sync.rows)]
    /\ UNCHANGED <<txn, hist, tbl, engine, config, connection, pc, bat, last>>

\* the thread: self.connection.commit(), then the sleep
SyncCommit ==
    /\ sync.pc = "commit"
    /\ IF ~connection
       THEN /\ sync' = [sync EXCEPT !.pc = "dead"]
            /\ UNCHANGED <<tbl, txn>>
       ELSE /\ tbl' = View(tbl, txn)
            /\ txn' = NoTransaction
            /\ sync' = [sync EXCEPT !.pc = "sleep", !.rows = <<>>]
    /\ UNCHANGED <<hist, engine, config, connection, pc, bat, last>>

NextDeam ==
    \/ DeamConnect
    \/ DeamClose
    \/ DeamInsertBegin
    \/ DeamUpdateBegin
    \/ DeamWriteRow
    \/ DeamWriteCommit
    \/ DeamBatchBegin
    \/ DeamBatchChunk
    \/ DeamBatchEnd
    \/ InitAnalytics
    \/ SyncSelect
    \/ SyncWake
    \/ SyncCopy
    \/ SyncCommit

SpecDeam == InitDeam /\ [][NextDeam]_vars

---------------------------------------------------------------------------
(* Properties *)

\* the last element of a non-empty sequence
Last(s) == s[Len(s)]

\* a batch_insert_vectors call that opened a transaction has returned
BatchDone ==
    /\ pc = "idle"
    /\ last.op = "batch_insert_vectors"
    /\ "begin" \in Range(last.io)

\* in that call the engine rejected a statement: one more was sent than applied
EngineRejected == Len(last.stmts) > Len(last.out.executed)

\* the rows of table t in db, none when the table is not there
RowsOf(db, t) == IF HasTable(db, t) THEN db[t].rows ELSE <<>>

\* C1: when batch_insert_vectors has executed rows and the engine rejects a
\* later row's INSERT, the transaction is rolled back, no commit is issued and
\* the table holds no row of the batch: it is as it was before the call.
C1_BatchAtomicOnEngineFailure ==
    (BatchDone /\ EngineRejected) =>
        /\ Last(last.io) = "rollback"
        /\ "commit" \notin Range(last.io)
        /\ tbl = last.before

\* C1 witness: a batch that had executed a row when the engine rejected the next
C1_Witness ==
    /\ BatchDone
    /\ EngineRejected
    /\ Len(last.out.executed) >= 1

\* C2 (as claimed): a batch of N rows, K of them with an embedding that cannot
\* be parsed, no statement rejected by the engine, commits, reports N-K rows
\* inserted and K skipped, and adds the N-K executed rows to the table in file order.
C2_RowIsolatingCounts ==
    (BatchDone /\ ~EngineRejected) =>
        /\ Last(last.io) = "commit"
        /\ last.out.count = Len(last.stmts)
        /\ last.out.skipped = last.out.n - Len(last.stmts)
        /\ RowsOf(tbl, last.args.table)
              = RowsOf(last.before, last.args.table) \o last.out.executed

\* C3 (as claimed): a row whose embedding cannot be parsed never aborts the
\* batch: a batch ends in a rollback only when the engine rejected a statement.
C3_MalformedRowNeverAborts ==
    (BatchDone /\ Last(last.io) = "rollback") => EngineRejected

\* the call recorded is one of update and delete, by the library or the CLI
UpdateOrDelete == last.op \in {"delete_vectors", "update_vector"}

\* C4: update_vector and delete_vectors with an empty or absent WHERE clause
\* fail, at the library and at the CLI alike: no statement is sent to the
\* engine and the table is unchanged.
C4_EmptyWhereRejected ==
    (UpdateOrDelete /\ ~TruthyStr(last.args.where)) =>
        /\ last.stmts = <<>>
        /\ tbl = last.before
        /\ last.ret # "True"
        /\ last.msg \notin {"", "Successfully deleted", "Successfully updated"}

\* C4 witness: the library stopped a delete at its WHERE check, rows at stake
C4_Witness ==
    /\ last.op = "delete_vectors"
    /\ ~last.cli
    /\ ~TruthyStr(last.args.where)
    /\ last.msg = "Error: A WHERE clause is required"
    /\ RowsOf(last.before, last.args.table) # <<>>

\* C5 (as claimed): no delete operation removes the rows of a table without a
\* filter from the caller: a delete request with no WHERE clause, no ids and no
\* filter, DEAM.delete_vectors with delete_all included, executes no statement
\* and leaves the table as it was.
C5_NoUnfilteredDelete ==
    /\ (last.op = "delete_vectors" /\ ~TruthyStr(last.args.where)) =>
           (last.stmts = <<>> /\ tbl = last.before)
    /\ (last.op = "DEAM.delete_vectors" /\ last.args.ids = <<>>
            /\ ~TruthyDict(last.args.filter_by)) =>
           (last.stmts = <<>> /\ tbl = last.before)

\* the spellings of a word in any mix of upper and lower case
AnyCase(w) ==
    {s \in [DOMAIN w -> AsciiLetters] :
        \A i \in DOMAIN w : s[i] \in {w[i], UpperChar(w[i])}}

\* C6: delete_table sends DROP TABLE only after the user answered 'yes' in any
\* case at the prompt; any other answer makes it return False with no statement
\* sent and the table in place; the prompt is shown at most once, and only
\* once the table name passed validation.
C6_DropNeedsYes ==
    last.op = "delete_table" =>
        /\ Len(last.out) <= 1
        /\ last.out # <<>> => IsIdentifier(last.args.table)
        /\ last.stmts # <<>> => (last.out # <<>> /\ last.args.answer \in AnyCase(Yes))
        /\ last.args.answer \notin AnyCase(Yes) =>
              (last.stmts = <<>> /\ last.ret = "False" /\ tbl = last.before)

\* C6 witness: the user was asked about a table that exists and did not say yes
C6_Witness ==
    /\ last.op = "delete_table"
    /\ last.out = <<"prompt">>
    /\ last.args.answer \notin AnyCase(Yes)
    /\ HasTable(tbl, last.args.table)

\* the operations of DIEM that put identifiers into statement text
InliningOps ==
    {"create_table", "insert_vector", "batch_insert_vectors", "similarity_search",
     "update_vector", "delete_vectors", "delete_table", "get_all_from_table"}

\* the statements sent so far by the call in progress or the call just ended
SentStatements == IF pc = "batch" THEN bat.call.stmts ELSE last.stmts

\* C7 (as claimed): every table, column and index name in the text of a
\* statement sent by one of these operations is a valid identifier.
C7_OnlyIdentifiersInlined ==
    last.op \in InliningOps =>
        \A i \in DOMAIN SentStatements :
            \A name \in SentStatements[i].names : IsIdentifier(name)

\* some name given to create_table is not a valid identifier
CreateHasInvalidName ==
    \/ ~IsIdentifier(last.args.table)
    \/ ~IsIdentifier(last.args.index)
    \/ \E col \in DOMAIN OrEmpty(last.args.other_columns) : ~IsIdentifier(col)
    \/ TruthyName(last.args.primary_key) /\ ~IsIdentifier(last.args.primary_key)

\* C8 (as claimed): create_table given a table, column, primary-key or index
\* name that is not a valid identifier fails before any interaction with the
\* database.
C8_InvalidNameFailsBeforeIO ==
    (last.op = "create_table" /\ CreateHasInvalidName) =>
        /\ last.io = <<>>
        /\ last.stmts = <<>>
        /\ last.msg # "created successfully."

\* the metric of the call recorded is neither cosine nor euclidean in any case
UnsupportedMetric ==
    last.args.metric \notin AnyCase(Cosine) \cup AnyCase(Euclidean)

\* C9 (as claimed): create_table and similarity_search given an unsupported
\* metric are rejected with a metric error before the database is touched,
\* whether or not the table exists.
C9_MetricRejectedBeforeDB ==
    (last.op \in {"create_table", "similarity_search"} /\ UnsupportedMetric) =>
        /\ last.io = <<>>
        /\ last.stmts = <<>>
        /\ engine => last.msg \in {"Invalid distance metric.",
                                   "Error: Invalid distance metric."}

\* the row data of the insert_vector call recorded cannot be inserted
InsertDataRejected ==
    \/ ColEmbedding \notin DOMAIN last.args.data
    \/ \E col \in DOMAIN last.args.data : ~IsIdentifier(col)
    \/ ColEmbedding \in DOMAIN last.args.data
          /\ last.args.data[ColEmbedding].py = "set"

\* C10: insert_vector with row data that has no embedding key, an embedding
\* json.dumps cannot serialize, or a key that is no identifier fails before
\* any statement is sent, and the table is unchanged.
C10_InsertFailsBeforeStatement ==
    (last.op = "insert_vector" /\ InsertDataRejected) =>
        /\ last.stmts = <<>>
        /\ last.io = <<>>
        /\ tbl = last.before
        /\ last.msg # "Successfully inserted 1 row"

\* C10 witness: a connected insert_vector into an existing table was refused
\* for its data
C10_Witness ==
    /\ last.op = "insert_vector"
    /\ InsertDataRejected
    /\ engine
    /\ HasTable(last.before, last.args.table)
    /\ last.msg \in {"Error: 'data' dictionary must contain an 'embedding' key.",
                     "Error: 'embedding' value must be a JSON-serializable list.",
                     "Error: Invalid column name"}

\* the call recorded is a create_table, of either library, on a connected
\* engine, for a table that exists, with arguments a creation could have had
CreateOfExisting ==
    /\ last.op \in {"create_table", "create_table_if_not_exists"}
    /\ engine
    /\ HasTable(last.before, last.args.table)
    /\ last.args.metric \in AnyCase(Cosine) \cup AnyCase(Euclidean)

\* C11 (as claimed): create_table called while the table exists raises no
\* error, sends no CREATE statement and leaves the schema unchanged.
C11_CreateSendsNothing ==
    CreateOfExisting =>
        /\ last.ret = "None"
        /\ last.stmts = <<>>
        /\ tbl = last.before

\* C11 (amended): create_table called while the table exists raises no error
\* and leaves the table unchanged; DIEM.create_table of src/DIEM/DIEM.py sends
\* no statement, the older one of src/DIEM.py sends CREATE TABLE IF NOT
\* EXISTS, which the engine accepts without effect.
C11_CreateIdempotent ==
    CreateOfExisting =>
        /\ last.ret = "None"
        /\ last.msg # "Error creating table"
        /\ tbl = last.before
        /\ last.op = "create_table" =>
              (last.stmts = <<>> /\ last.io = <<"has_table">>)
        /\ last.op = "create_table_if_not_exists" =>
              (Len(last.stmts) = 1 /\ last.stmts[1].kind = "CREATE IF NOT EXISTS")

\* C11 witness: DIEM.create_table found the table in place
C11_Witness ==
    /\ CreateOfExisting
    /\ last.op = "create_table"
    /\ last.msg = "already exists."

\* the call recorded is a command of the CLI that reads or writes the database
CliDatabaseCommand ==
    /\ last.cli
    /\ last.op \in {"create_table", "delete_vectors", "update_vector",
                    "batch_insert_vectors"}

\* C12 (as claimed): a CLI command issues a statement only if an earlier
\* `connect` reached the engine and no `close` happened since; without one it
\* issues no statement.
C12_StatementNeedsConnect ==
    /\ (CliDatabaseCommand /\ last.stmts # <<>>) => hist.linked
    /\ (pc = "batch" /\ bat.call.cli /\ bat.call.stmts # <<>>) => hist.linked

\* C13 (as claimed): the config file exists exactly when the most recent of
\* the connect and close actions was a connect, and then it holds the URI
\* entered last.
C13_ConfigTracksConnect ==
    /\ config # NoConfig <=> hist.recent = "connect"
    /\ config # NoConfig => config = hist.uri

\* the messages of create_table, command and library, for arguments refused
CreateValidationMessages ==
    {"Error: --table and --dim are required.", "Error: Invalid JSON",
     "Invalid table name", "Invalid index name", "Invalid distance metric.",
     "Invalid column name", "Invalid primary key column name",
     "Primary key is not defined in 'other_columns'."}

\* C14 (as claimed): the create_table command exits with status 0 when the
\* table is created or exists already, and with a non-zero status on every
\* validation failure.
C14_CreateExitStatus ==
    (last.cli /\ last.op = "create_table") =>
        /\ last.msg \in {"created successfully.", "already exists."} =>
              ExitStatus(last) = 0
        /\ last.msg \in CreateValidationMessages => ExitStatus(last) # 0

\* C15 (as claimed): the insert_batch command exits with status 0 when the
\* batch commits, whatever it skipped, and with a non-zero status when the
\* file cannot be read or the batch is rolled back.
C15_BatchExitStatus ==
    (last.cli /\ last.op = "batch_insert_vectors" /\ pc = "idle") =>
        /\ last.msg = "Successfully inserted" => ExitStatus(last) = 0
        /\ last.msg \in {"Error: File not found",
                         "Error during batch insert (rolled back)"} =>
              ExitStatus(last) # 0

\* the similarity_search recorded returned rows
SearchReturned == last.op = "similarity_search" /\ last.ret = "rows"

\* C16: similarity_search with a supported metric and result count k returns
\* at most k rows of the table, in non-decreasing distance from the query
\* vector under that metric, and no row left out is nearer than a row returned.
C16_SearchOrderedAndBounded ==
    SearchReturned =>
        LET rows == last.before[last.args.table].rows
            q == last.args.query_vector.v
            metric == Lower(last.args.metric)
            k == last.args.top_k
            found == last.out
        IN /\ Len(found) <= k
           /\ Len(found) = k \/ Len(found) = Len(rows)
           /\ \A i \in DOMAIN found : found[i] \in Range(rows)
           /\ \A i, j \in DOMAIN found : i <= j => NotFarther(metric, q, found[i], found[j])
           /\ \A r \in Range(rows) :
                 r \notin Range(found) =>
                     \A i \in DOMAIN found : NotFarther(metric, q, found[i], r)

\* C16 witness: a search kept the nearer of two rows, which table order and
\* the other metric would not have put first
C16_Witness ==
    /\ SearchReturned
    /\ Len(last.before[last.args.table].rows) > Len(last.out)
    /\ last.out # <<>>
    /\ last.out[1] # last.before[last.args.table].rows[1]
    /\ Lower(last.args.metric) = Euclidean
    /\ ~NotFarther(Cosine, last.args.query_vector.v, last.out[1],
                   last.before[last.args.table].rows[1])

\* the name matches [A-Za-z_][A-Za-z0-9_]*
MatchesWordPattern(s) ==
    /\ Len(s) > 0
    /\ s[1] \in AsciiLetters \cup {"_"}
    /\ \A i \in DOMAIN s : s[i] \in AsciiLetters \cup Digits \cup {"_"}

\* the name begins as such a word does
StartsAsWord(s) == Len(s) > 0 /\ s[1] \in AsciiLetters \cup {"_"}

\* the name checked holds one of these characters
Contains(chars) == \E i \in DOMAIN last.args.name : last.args.name[i] \in chars

Ends(io) == {i \in DOMAIN io : io[i] \in {"commit", "rollback"}}

\* a transaction that is open has not been ended, and the call that returned
\* ended its transaction once, as the last thing it did with the engine
OneTerminalState ==
    /\ pc = "batch" => ("begin" \in Range(bat.call.io) /\ Ends(bat.call.io) = {})
    /\ BatchDone => Ends(last.io) = {Len(last.io)}

\* C18: every batch_insert_vectors that opens a transaction ends it exactly
\* once, by one commit after the last row or by a rollback, never both and
\* never between rows, and the call does not return with it open.
C18_BatchReachesOneTerminal ==
    /\ []OneTerminalState
    /\ (pc = "batch") ~> BatchDone

\* C18 witness: a batch that skipped a row and executed another was committed
C18_Witness ==
    /\ BatchDone
    /\ Last(last.io) = "commit"
    /\ last.out.skipped >= 1
    /\ last.out.count >= 1

\* a row that the call wrote, and that was not there when the call began, is
\* in the committed table
Durable(r, call) ==
    LET t == call.args.table
    IN /\ HasTable(tbl, t)
       /\ r \in Range(tbl[t].rows)
       /\ HasTable(call.before, t) => r \notin Range(call.before[t].rows)

\* C19: when DEAM.batch_insert_vectors has ended on a failure of one of its
\* chunks, no row that the call inserted, the rows of its earlier chunks
\* included, is committed in the table
C19_BatchCommitsNothingOnFailure ==
    (last.op = "DEAM.batch_insert_vectors" /\ last.ret = "mysql.connector.Error")
        => \A k \in 1..Len(last.out.rows) : ~Durable(last.out.rows[k], last)

\* C20: once init_analytics has started the thread, while insert_vectors or
\* update_vectors has rows of its loop still to write, none of the rows it
\* has written is committed: no commit falls between two of its rows
C20_RunningWriteIsExclusive ==
    (/\ sync.pc # "off"
     /\ pc = "deam_write"
     /\ bat.call.op # "DEAM.batch_insert_vectors"
     /\ bat.i < DeamRows(bat))
        => \A k \in 1..Len(bat.rows) : ~Durable(bat.rows[k], bat.call)

\* C21: when an iteration of the thread that found no transaction open on the
\* connection goes to sleep, no transaction is open: the one its SELECT began
\* has been ended by a commit or a rollback
C21_NoTransactionAcrossSleep ==
    [][(sync.pc = "select" /\ sync'.pc = "sleep" /\ txn = NoTransaction)
          => txn' = NoTransaction]_vars

\* C22: the statement that update_vector executes binds to the SET parameter
\* of every column of data the value of data for that column, the JSON text
\* of it for the embedding, whatever the WHERE parameters are
C22_SetParamsAreData ==
    (last.op = "update_vector" /\ last.stmts # <<>>)
        => \A col \in DOMAIN last.args.data :
              last.stmts[1].binds[SetPrefix \o col] =
                  IF col = ColEmbedding THEN JsonDumps(last.args.data[col])
                  ELSE last.args.data[col]

\* the messages by which an insert or update reports success
SuccessMessages ==
    {"Vectors Inserted Successfully", "Successfully inserted 1 row", "Inserted / Updated"}

\* C23: when insert_vectors, insert_vector or DEAM.update_vectors has printed
\* its success message, the call executed its statement against the engine
\* and committed it
C23_SuccessMeansCommitted ==
    (/\ last.op \in {"insert_vectors", "insert_vector", "DEAM.update_vectors"}
     /\ last.msg \in SuccessMessages)
        => /\ last.stmts # <<>>
           /\ \E k \in 1..Len(last.io) : last.io[k] = "execute"
           /\ last.io[Len(last.io)] = "commit"

====
